---- MODULE Spec2Model ----
(***************************************************************************)
(* Clause Risk Analysis Engine of the contract assistant.                  *)
(*                                                                         *)
(* Text is a sequence of one-character strings.  Numbers that the Python   *)
(* code holds as floats are exact fractions <<numerator, denominator>>;    *)
(* a value the code has passed through round(x, 2) is an integer number of *)
(* hundredths.                                                             *)
(***************************************************************************)
EXTENDS Integers, Sequences, FiniteSets, TLC

VARIABLES
    text,            \* DocumentParser.extract_clauses: the argument `text`
    pieces,          \* history: the pieces the input was assembled from
    clauses,         \* the clause list (extract_clauses' result, the assessor's input)
    phase,           \* position of the pipeline
    clause_risks,    \* RiskAssessor.assess_clause_risks: the returned list
    category_scores, \* assess_clause_risks: the local dict category_scores, per clause
    overall,         \* RiskAssessor.calculate_overall_risk: the returned dict
    probe,           \* RiskAssessor._get_risk_level: a looked-up score and its level
    results,         \* RiskAssessor.assess_contract_risk: the returned dict
    lookup,          \* a localization lookup: its arguments and its outcome
    similarity,      \* TemplateMatcher._calculate_similarity: the ratios it returned
    template_matches, \* TemplateMatcher.match_clauses_to_templates: the returned list
    hash_seed,       \* the interpreter's string hashing: the iteration order of a set of topics
    self_templates,  \* TemplateMatcher.templates, or the failure of the constructor
    templates_dir,   \* the directory config.TEMPLATES_DIR
    templates_file   \* the file contract_templates.json in it

\* the variables of the contract assessment and the template matcher
contract_vars == <<results, lookup, similarity, template_matches>>

\* the interpreter, the template library and its file
engine_vars == <<hash_seed, self_templates, templates_dir, templates_file>>

vars == <<text, pieces, clauses, phase, clause_risks, category_scores, overall, probe,
          contract_vars, engine_vars>>

----------------------------------------------------------------------------
(* Characters and strings                                                  *)

UpperChars == <<"A","B","C","D","E","F","G","H","I","J","K","L","M",
                "N","O","P","Q","R","S","T","U","V","W","X","Y","Z">>

LowerChars == <<"a","b","c","d","e","f","g","h","i","j","k","l","m",
                "n","o","p","q","r","s","t","u","v","w","x","y","z">>

DigitChars == <<"0","1","2","3","4","5","6","7","8","9">>

UpperSet == {UpperChars[i] : i \in 1..Len(UpperChars)}

DigitSet == {DigitChars[i] : i \in 1..Len(DigitChars)}

IsUpper(c) == c \in UpperSet

IsDigit(c) == c \in DigitSet

\* \s of the re module and the characters str.strip() removes
IsSpace(c) == c \in {" ", "\n", "\t", "\r"}

\* s[i], or the empty string past the end (no character class holds it)
At(s, i) == IF i >= 1 /\ i <= Len(s) THEN s[i] ELSE ""

\* first position >= p that holds no white space
RECURSIVE SkipSpaces(_, _)
SkipSpaces(s, p) == IF IsSpace(At(s, p)) THEN SkipSpaces(s, p + 1) ELSE p

\* last position <= p that holds no white space, 0 if there is none
RECURSIVE SkipSpacesBack(_, _)
SkipSpacesBack(s, p) == IF IsSpace(At(s, p)) THEN SkipSpacesBack(s, p - 1) ELSE p

\* str.strip()
strip(s) ==
    LET first == SkipSpaces(s, 1)
    IN  IF first > Len(s) THEN <<>> ELSE SubSeq(s, first, SkipSpacesBack(s, Len(s)))

\* len(s.split()): the number of maximal runs of non-space characters
word_count(s) ==
    Cardinality({i \in 1..Len(s) : ~IsSpace(s[i]) /\ (i = 1 \/ IsSpace(s[i - 1]))})

\* str(n) for n >= 0
RECURSIVE str(_)
str(n) ==
    IF n < 10 THEN <<DigitChars[n + 1]>>
    ELSE str(n \div 10) \o <<DigitChars[(n % 10) + 1]>>

\* f"{n:03d}": decimal digits, zero-padded on the left to at least 3
format_03d(n) ==
    LET d == str(n)
    IN  IF Len(d) >= 3 THEN d ELSE [i \in 1..(3 - Len(d)) |-> "0"] \o d

\* whether `lit` occurs in s starting at position p
HasAt(s, p, lit) ==
    /\ p + Len(lit) - 1 <= Len(s)
    /\ \A j \in 1..Len(lit) : s[p + j - 1] = lit[j]

----------------------------------------------------------------------------
(* Clause Segmenter: DocumentParser.extract_clauses                        *)

MIN_CLAUSE_LENGTH == 20

\* first position >= p that holds no digit (\d+ is greedy; what follows it
\* in every pattern is not a digit, so backtracking never shortens it; the
\* same holds of \s+, which SkipSpaces models)
RECURSIVE SkipDigits(_, _)
SkipDigits(s, p) == IF IsDigit(At(s, p)) THEN SkipDigits(s, p + 1) ELSE p

\* r'\d+\.\d+\.?\s+[A-Z]' matched at p: the position after the match, 0 if none
MatchDecimal(s, p) ==
    LET d1 == SkipDigits(s, p)
        d2 == SkipDigits(s, d1 + 1)
        d3 == IF At(s, d2) = "." THEN d2 + 1 ELSE d2
        w  == SkipSpaces(s, d3)
    IN  IF /\ d1 > p
           /\ At(s, d1) = "."
           /\ d2 > d1 + 1
           /\ w > d3
           /\ IsUpper(At(s, w))
        THEN w + 1 ELSE 0

\* r'\d+\.\s+[A-Z]' matched at p
MatchSimple(s, p) ==
    LET d1 == SkipDigits(s, p)
        w  == SkipSpaces(s, d1 + 1)
    IN  IF /\ d1 > p
           /\ At(s, d1) = "."
           /\ w > d1 + 1
           /\ IsUpper(At(s, w))
        THEN w + 1 ELSE 0

\* r'<word>\s+\d+' matched at p, for the words Article, Clause, Section
MatchWord(s, p, word) ==
    LET a == p + Len(word)
        w == SkipSpaces(s, a)
        d == SkipDigits(s, w)
    IN  IF HasAt(s, p, word) /\ w > a /\ d > w THEN d ELSE 0

Article == <<"A","r","t","i","c","l","e">>

Clause == <<"C","l","a","u","s","e">>

Section == <<"S","e","c","t","i","o","n">>

\* the combined pattern matched at p: the alternatives are tried in the
\* order they are listed and the first that matches wins
MatchAt(s, p) ==
    LET c == s[p]
    IN  IF IsDigit(c)
        THEN IF MatchDecimal(s, p) > 0 THEN MatchDecimal(s, p) ELSE MatchSimple(s, p)
        ELSE IF c = "A" THEN MatchWord(s, p, Article)
        ELSE IF c = "C" THEN MatchWord(s, p, Clause)
        ELSE IF c = "S" THEN MatchWord(s, p, Section)
        ELSE 0

\* re.split(combined_pattern, text) from position p on, `from` being where
\* the pending unmatched part began: [part, marker, part, ..., part]
RECURSIVE re_split_from(_, _, _)
re_split_from(s, p, from) ==
    IF p > Len(s) THEN <<SubSeq(s, from, Len(s))>>
    ELSE LET e == MatchAt(s, p)
         IN  IF e > 0
             THEN <<SubSeq(s, from, p - 1), SubSeq(s, p, e - 1)>> \o re_split_from(s, e, e)
             ELSE re_split_from(s, p + 1, from)

re_split(s) == re_split_from(s, 1, 1)

\* text.split('\n\n'), scanning from p with the pending piece starting at `from`
RECURSIVE split_blank_from(_, _, _)
split_blank_from(s, p, from) ==
    IF p > Len(s) THEN <<SubSeq(s, from, Len(s))>>
    ELSE IF At(s, p) = "\n" /\ At(s, p + 1) = "\n"
         THEN <<SubSeq(s, from, p - 1)>> \o split_blank_from(s, p + 2, p + 2)
         ELSE split_blank_from(s, p + 1, from)

split_blank(s) == split_blank_from(s, 1, 1)

\* mutant: the `if p.strip()` filter is lost
paragraphs_unfiltered(s) ==
    LET raw == split_blank(s)
    IN  [i \in 1..Len(raw) |-> strip(raw[i])]

\* [p.strip() for p in text.split('\n\n') if p.strip()]
paragraphs_of(s) ==
    LET raw == split_blank(s)
    IN  SelectSeq([i \in 1..Len(raw) |-> strip(raw[i])], LAMBDA p : p # <<>>)

\* mutant: > in place of >=
KeepSpanStrict(content) == Len(content) > MIN_CLAUSE_LENGTH

\* the length filter of the marker loop
KeepSpan(content) == Len(content) >= MIN_CLAUSE_LENGTH

\* the length filter of the paragraph loop
KeepParagraph(para) == Len(para) >= MIN_CLAUSE_LENGTH

ClauseRecord(number, label, content) ==
    [clause_id     |-> <<"C">> \o format_03d(number),
     clause_number |-> label,
     content       |-> content,
     length        |-> Len(content),
     word_count    |-> word_count(content)]

\* the marker loop: i runs over the (1-based) positions of the headers
RECURSIVE MarkerLoop(_, _, _)
MarkerLoop(parts, i, clause_number) ==
    IF i > Len(parts) THEN <<>>
    ELSE IF i + 1 <= Len(parts)
         THEN LET header  == parts[i]
                  content == strip(parts[i + 1])
              IN  IF KeepSpan(content)
                  THEN <<ClauseRecord(clause_number, strip(header), content)>>
                       \o MarkerLoop(parts, i + 2, clause_number + 1)
                  ELSE MarkerLoop(parts, i + 2, clause_number)
         ELSE MarkerLoop(parts, i + 2, clause_number)

ParaLabel(idx) == <<"P","a","r","a"," ">> \o str(idx)

\* the paragraph loop: idx is enumerate(paragraphs, 1)
RECURSIVE ParagraphLoop(_, _)
ParagraphLoop(paragraphs, idx) ==
    IF idx > Len(paragraphs) THEN <<>>
    ELSE LET para == paragraphs[idx]
         IN  IF KeepParagraph(para)
             THEN <<ClauseRecord(idx, ParaLabel(idx), para)>>
                  \o ParagraphLoop(paragraphs, idx + 1)
             ELSE ParagraphLoop(paragraphs, idx + 1)

\* mutant: the paragraph loop runs whatever the marker loop found
UseFallbackAlways(t, marker_clauses) == TRUE

\* `if not clauses`: whether the paragraph fallback runs
UseFallback(t, marker_clauses) == marker_clauses = <<>>

extract_clauses(t) ==
    LET marker_clauses == MarkerLoop(re_split(t), 2, 1)
    IN  IF UseFallback(t, marker_clauses)
        THEN ParagraphLoop(paragraphs_of(t), 1)
        ELSE marker_clauses

----------------------------------------------------------------------------
(* Input documents of the segmenter                                        *)

MaxPieces == 4

Body(n) == [i \in 1..n |-> "x"]

BlankLine == <<"\n", "\n">>

SimpleMarker == <<"1", ".", " ", "T">>

DecimalMarker == <<"2", ".", "1", " ", "T">>

SectionMarker == <<"S","e","c","t","i","o","n"," ","3">>

PiecePool ==
    [short   |-> Body(MIN_CLAUSE_LENGTH - 1),
     exact   |-> Body(MIN_CLAUSE_LENGTH),
     long    |-> Body(MIN_CLAUSE_LENGTH + 1),
     blank   |-> BlankLine,
     para    |-> Body(MIN_CLAUSE_LENGTH + 1) \o BlankLine,
     simple  |-> SimpleMarker,
     decimal |-> DecimalMarker,
     section |-> SectionMarker]

PieceNames == DOMAIN PiecePool

MarkerNames == {"simple", "decimal", "section"}

----------------------------------------------------------------------------
(* The segmenter's state machine                                           *)

\* iteration orders of the set of the six critical topics, as indices into
\* critical_clauses: the orders under PYTHONHASHSEED=0 and PYTHONHASHSEED=1.
\* String hashing is seeded when the interpreter starts, so the order is
\* fixed for one process and differs between processes.
HashSeeds == {<<5, 2, 4, 6, 3, 1>>, <<4, 2, 3, 6, 1, 5>>}

\* self.templates of a TemplateMatcher: before the constructor, after it
\* returned, and after it raised
NotConstructed == [status |-> "not constructed", templates |-> <<>>, exception |-> ""]

Constructed(library) == [status |-> "constructed", templates |-> library, exception |-> ""]

Failed(exception) == [status |-> "raised", templates |-> <<>>, exception |-> exception]

\* states of the file contract_templates.json: missing, not openable for
\* reading, holding text that json.load rejects, holding the JSON text of a value
FileAbsent == [state |-> "absent", value |-> <<>>]

FileUnreadable == [state |-> "unreadable", value |-> <<>>]

FileMalformed == [state |-> "malformed", value |-> <<>>]

\* the state before any operation, in a process with the given hash seed,
\* matcher and template directory
InitEngine(seed, matcher, dir, file) ==
    /\ text = <<>>
    /\ pieces = <<>>
    /\ clauses = <<>>
    /\ phase = "input"
    /\ clause_risks = <<>>
    /\ category_scores = <<>>
    /\ overall = "none"
    /\ probe = "none"
    /\ results = "none"
    /\ lookup = "none"
    /\ similarity = <<>>
    /\ template_matches = <<>>
    /\ hash_seed = seed
    /\ self_templates = matcher
    /\ templates_dir = dir
    /\ templates_file = file

InitSeg == \E seed \in HashSeeds : InitEngine(seed, NotConstructed, "absent", FileAbsent)

\* the caller extends the document text by one piece
AppendPiece(p) ==
    /\ phase = "input"
    /\ Len(pieces) < MaxPieces
    /\ text' = text \o PiecePool[p]
    /\ pieces' = Append(pieces, p)
    /\ UNCHANGED <<clauses, phase, clause_risks, category_scores, overall, probe, contract_vars, engine_vars>>

\* parser.extract_clauses(text)
ExtractClauses ==
    /\ phase = "input"
    /\ clauses' = extract_clauses(text)
    /\ phase' = "segmented"
    /\ UNCHANGED <<text, pieces, clause_risks, category_scores, overall, probe, contract_vars, engine_vars>>

NextSeg ==
    \/ \E p \in PieceNames : AppendPiece(p)
    \/ ExtractClauses

SpecSeg == InitSeg /\ [][NextSeg]_vars

----------------------------------------------------------------------------
(* Floats                                                                  *)
(* A float is <<num, den, err>>: the rational num/den the expression       *)
(* denotes, and the sign of the IEEE-754 representation error of the       *)
(* double that holds it (err = 1: the double lies just above num/den,      *)
(* -1: just below, 0: the double is taken as exact).  The error is smaller *)
(* than any gap between distinct values of the model, so it decides a      *)
(* comparison or a rounding only where the rationals tie.                  *)

Float(num, den) == <<num, den, 0>>

FloatLt(a, b) ==
    \/ a[1] * b[2] < b[1] * a[2]
    \/ a[1] * b[2] = b[1] * a[2] /\ a[3] < b[3]

FloatLe(a, b) == ~FloatLt(b, a)

\* round(x, 2), in hundredths: to the nearest hundredth; on an exact decimal
\* tie the double's error decides, and an exactly held tie goes to the even
\* neighbour
round2(x) ==
    LET q    == 100 * x[1]
        down == q \div x[2]
        rest == q % x[2]
    IN  IF 2 * rest < x[2] THEN down
        ELSE IF 2 * rest > x[2] THEN down + 1
        ELSE IF x[3] > 0 THEN down + 1
        ELSE IF x[3] < 0 THEN down
        ELSE IF down % 2 = 0 THEN down ELSE down + 1

----------------------------------------------------------------------------
(* Configuration: config.RISK_CATEGORIES and config.RISK_THRESHOLDS        *)

RISK_CATEGORIES ==
    <<
      [name |-> "manipulative_language",
       weight |-> <<100, 100>>,
       keywords |-> <<
         <<"c","u","s","t","o","d","y">>,  \* custody
         <<"t","e","m","p","o","r","a","r","y"," ","c","u","s","t","o","d","y">>,  \* temporary custody
         <<"r","e","l","i","n","q","u","i","s","h","e","s">>,  \* relinquishes
         <<"r","e","l","i","n","q","u","i","s","h">>,  \* relinquish
         <<"k","n","o","w","i","n","g","l","y"," ","a","c","c","e","p","t","s">>,  \* knowingly accepts
         <<"f","u","l","l"," ","a","w","a","r","e","n","e","s","s">>,  \* full awareness
         <<"s","o","l","e"," ","r","e","s","p","o","n","s","i","b","i","l","i","t","y">>,  \* sole responsibility
         <<"p","e","r","s","o","n","a","l"," ","a","c","c","o","u","n","t","a","b","i","l","i","t","y">>,  \* personal accountability
         <<"w","e","i","g","h","t"," ","o","f">>,  \* weight of
         <<"r","e","s","p","o","n","s","i","b","i","l","i","t","y"," ","o","v","e","r"," ","d","e","n","i","a","l">>,  \* responsibility over denial
         <<"n","o"," ","e","x","t","e","r","n","a","l"," ","s","y","s","t","e","m">>,  \* no external system
         <<"n","o"," ","p","e","r","m","i","s","s","i","o","n">>,  \* no permission
         <<"e","m","o","t","i","o","n","a","l"," ","f","a","t","i","g","u","e">>,  \* emotional fatigue
         <<"b","l","a","m","e"," ","c","i","r","c","u","m","s","t","a","n","c","e","s">>,  \* blame circumstances
         <<"r","e","s","i","l","i","e","n","c","e"," ","i","s"," ","b","u","i","l","t">>,  \* resilience is built
         <<"f","a","c","i","n","g"," ","w","h","a","t">>,  \* facing what
         <<"s","c","a","r","s"," ","i","n","c","l","u","d","e","d">>,  \* scars included
         <<"u","n","k","n","o","w","i","n","g","l","y"," ","a","g","r","e","e","s">>,  \* unknowingly agrees
         <<"i","l","l","u","s","i","o","n"," ","o","f"," ","c","o","n","t","r","o","l">>,  \* illusion of control
         <<"n","o"," ","p","r","o","t","e","c","t","i","o","n">>,  \* no protection
         <<"n","o"," ","r","e","f","u","n","d","s">>,  \* no refunds
         <<"n","o"," ","g","u","a","r","a","n","t","e","e">>,  \* no guarantee
         <<"v","a","l","i","d","a","t","i","o","n"," ","m","a","y"," ","b","e"," ","a","b","s","e","n","t">>,  \* validation may be absent
         <<"d","i","s","g","u","i","s","e","d"," ","a","s"," ","d","i","s","c","o","m","f","o","r","t">>,  \* disguised as discomfort
         <<"w","i","t","h","o","u","t"," ","w","a","r","n","i","n","g">>,  \* without warning
         <<"u","n","c","o","m","f","o","r","t","a","b","l","e"," ","t","r","u","t","h">>,  \* uncomfortable truth
         <<"p","s","y","c","h","o","l","o","g","i","c","a","l">>,  \* psychological
         <<"e","m","o","t","i","o","n","a","l"," ","m","a","n","i","p","u","l","a","t","i","o","n">>,  \* emotional manipulation
         <<"m","e","n","t","a","l"," ","s","t","a","t","e">>  \* mental state
       >>],
      [name |-> "emotional_pressure",
       weight |-> <<55, 100>>,
       keywords |-> <<
         <<"u","n","m","e","t"," ","e","x","p","e","c","t","a","t","i","o","n","s">>,  \* unmet expectations
         <<"l","o","n","e","l","i","n","e","s","s">>,  \* loneliness
         <<"s","e","l","f","-","c","o","n","f","r","o","n","t","a","t","i","o","n">>,  \* self-confrontation
         <<"u","n","r","e","s","o","l","v","e","d"," ","t","h","o","u","g","h","t","s">>,  \* unresolved thoughts
         <<"d","e","l","a","y","e","d"," ","a","m","b","i","t","i","o","n","s">>,  \* delayed ambitions
         <<"f","e","a","r"," ","o","f"," ","f","a","l","l","i","n","g"," ","b","e","h","i","n","d">>,  \* fear of falling behind
         <<"w","o","r","t","h","l","e","s","s","n","e","s","s">>,  \* worthlessness
         <<"s","e","l","f","-","d","o","u","b","t">>,  \* self-doubt
         <<"c","o","n","t","r","o","l","l","e","d"," ","e","x","p","o","s","u","r","e">>,  \* controlled exposure
         <<"c","o","n","s","e","n","t","s"," ","t","o">>,  \* consents to
         <<"n","o"," ","r","e","a","s","s","u","r","a","n","c","e">>,  \* no reassurance
         <<"n","o"," ","c","l","e","a","r"," ","t","i","m","e","l","i","n","e">>,  \* no clear timeline
         <<"r","e","p","e","a","t","e","d"," ","f","a","i","l","u","r","e">>,  \* repeated failure
         <<"c","o","m","p","a","r","i","s","o","n"," ","m","a","y"," ","o","c","c","u","r">>,  \* comparison may occur
         <<"c","o","n","f","i","d","e","n","c","e"," ","m","a","y"," ","d","i","p">>,  \* confidence may dip
         <<"s","i","l","e","n","c","e"," ","f","r","o","m"," ","o","t","h","e","r","s">>,  \* silence from others
         <<"a","v","o","i","d","i","n","g"," ","t","r","u","t","h">>,  \* avoiding truth
         <<"p","r","o","l","o","n","g"," ","u","n","c","e","r","t","a","i","n","t","y">>,  \* prolong uncertainty
         <<"d","i","s","c","o","m","f","o","r","t"," ","m","a","y"," ","b","e"," ","n","e","c","e","s","s","a","r","y">>  \* discomfort may be necessary
       >>],
      [name |-> "penalty_clause",
       weight |-> <<90, 100>>,
       keywords |-> <<
         <<"p","e","n","a","l","t","y">>,  \* penalty
         <<"l","i","q","u","i","d","a","t","e","d"," ","d","a","m","a","g","e","s">>,  \* liquidated damages
         <<"f","i","n","e">>,  \* fine
         <<"f","o","r","f","e","i","t">>,  \* forfeit
         <<"d","e","d","u","c","t","i","o","n">>  \* deduction
       >>],
      [name |-> "indemnity_clause",
       weight |-> <<85, 100>>,
       keywords |-> <<
         <<"i","n","d","e","m","n","i","f","y">>,  \* indemnify
         <<"i","n","d","e","m","n","i","f","i","c","a","t","i","o","n">>,  \* indemnification
         <<"h","o","l","d"," ","h","a","r","m","l","e","s","s">>,  \* hold harmless
         <<"d","e","f","e","n","d">>  \* defend
       >>],
      [name |-> "unilateral_termination",
       weight |-> <<95, 100>>,
       keywords |-> <<
         <<"t","e","r","m","i","n","a","t","e"," ","a","t"," ","w","i","l","l">>,  \* terminate at will
         <<"w","i","t","h","o","u","t"," ","c","a","u","s","e">>,  \* without cause
         <<"s","o","l","e"," ","d","i","s","c","r","e","t","i","o","n">>,  \* sole discretion
         <<"u","n","i","l","a","t","e","r","a","l">>  \* unilateral
       >>],
      [name |-> "arbitration",
       weight |-> <<50, 100>>,
       keywords |-> <<
         <<"a","r","b","i","t","r","a","t","i","o","n">>,  \* arbitration
         <<"d","i","s","p","u","t","e"," ","r","e","s","o","l","u","t","i","o","n">>,  \* dispute resolution
         <<"j","u","r","i","s","d","i","c","t","i","o","n">>,  \* jurisdiction
         <<"g","o","v","e","r","n","i","n","g"," ","l","a","w">>  \* governing law
       >>],
      [name |-> "auto_renewal",
       weight |-> <<70, 100>>,
       keywords |-> <<
         <<"a","u","t","o","-","r","e","n","e","w">>,  \* auto-renew
         <<"a","u","t","o","m","a","t","i","c"," ","r","e","n","e","w","a","l">>,  \* automatic renewal
         <<"e","v","e","r","g","r","e","e","n">>,  \* evergreen
         <<"p","e","r","p","e","t","u","a","l">>  \* perpetual
       >>],
      [name |-> "lock_in",
       weight |-> <<80, 100>>,
       keywords |-> <<
         <<"l","o","c","k","-","i","n">>,  \* lock-in
         <<"m","i","n","i","m","u","m"," ","p","e","r","i","o","d">>,  \* minimum period
         <<"c","a","n","n","o","t"," ","t","e","r","m","i","n","a","t","e">>,  \* cannot terminate
         <<"b","i","n","d","i","n","g"," ","p","e","r","i","o","d">>  \* binding period
       >>],
      [name |-> "non_compete",
       weight |-> <<85, 100>>,
       keywords |-> <<
         <<"n","o","n","-","c","o","m","p","e","t","e">>,  \* non-compete
         <<"n","o","n","-","c","o","m","p","e","t","i","t","i","o","n">>,  \* non-competition
         <<"r","e","s","t","r","a","i","n","t"," ","o","f"," ","t","r","a","d","e">>,  \* restraint of trade
         <<"e","x","c","l","u","s","i","v","i","t","y">>  \* exclusivity
       >>],
      [name |-> "ip_transfer",
       weight |-> <<90, 100>>,
       keywords |-> <<
         <<"i","n","t","e","l","l","e","c","t","u","a","l"," ","p","r","o","p","e","r","t","y">>,  \* intellectual property
         <<"I","P"," ","r","i","g","h","t","s">>,  \* IP rights
         <<"c","o","p","y","r","i","g","h","t">>,  \* copyright
         <<"o","w","n","e","r","s","h","i","p">>,  \* ownership
         <<"a","s","s","i","g","n","m","e","n","t"," ","o","f"," ","r","i","g","h","t","s">>  \* assignment of rights
       >>],
      [name |-> "liability_cap",
       weight |-> <<60, 100>>,
       keywords |-> <<
         <<"l","i","m","i","t","a","t","i","o","n"," ","o","f"," ","l","i","a","b","i","l","i","t","y">>,  \* limitation of liability
         <<"l","i","a","b","i","l","i","t","y"," ","c","a","p">>,  \* liability cap
         <<"m","a","x","i","m","u","m"," ","l","i","a","b","i","l","i","t","y">>,  \* maximum liability
         <<"a","g","g","r","e","g","a","t","e"," ","l","i","a","b","i","l","i","t","y">>  \* aggregate liability
       >>],
      [name |-> "force_majeure",
       weight |-> <<40, 100>>,
       keywords |-> <<
         <<"f","o","r","c","e"," ","m","a","j","e","u","r","e">>,  \* force majeure
         <<"a","c","t"," ","o","f"," ","g","o","d">>,  \* act of god
         <<"u","n","f","o","r","e","s","e","e","a","b","l","e"," ","c","i","r","c","u","m","s","t","a","n","c","e","s">>  \* unforeseeable circumstances
       >>]
    >>

\* dict order: low, medium, high
RISK_THRESHOLDS ==
    << [level |-> "low",    min_score |-> Float(0, 10), max_score |-> Float(3, 10)],
       [level |-> "medium", min_score |-> Float(3, 10), max_score |-> Float(6, 10)],
       [level |-> "high",   min_score |-> Float(6, 10), max_score |-> Float(11, 10)] >>

----------------------------------------------------------------------------
(* Risk Category Scorer: RiskAssessor.assess_clause_risks                  *)

ToLower == [c \in UpperSet |->
               LowerChars[CHOOSE i \in 1..Len(UpperChars) : UpperChars[i] = c]]

\* str.lower()
lower(s) == [i \in 1..Len(s) |-> IF s[i] \in UpperSet THEN ToLower[s[i]] ELSE s[i]]

\* `keyword in content`
Contains(keyword, content) ==
    IF keyword = <<>> THEN TRUE
    ELSE \E p \in 1..(Len(content) - Len(keyword) + 1) :
             content[p] = keyword[1] /\ HasAt(content, p, keyword)

\* `keyword in content_lower` as the scorer evaluates it: the keyword is
\* taken as the configuration writes it
KeywordHit(keyword, content_lower) == Contains(keyword, content_lower)

\* mutant: every occurrence of a keyword counts, not every keyword present
RECURSIVE OccurrenceCount(_, _)
OccurrenceCount(keywords, content_lower) ==
    IF keywords = <<>> THEN 0
    ELSE Cardinality({p \in 1..Len(content_lower) :
                         HasAt(content_lower, p, Head(keywords))})
         + OccurrenceCount(Tail(keywords), content_lower)

\* [kw for kw in keywords if kw in content_lower]
MatchedKeywords(keywords, content_lower) ==
    SelectSeq(keywords, LAMBDA kw : KeywordHit(kw, content_lower))

\* sum(1 for keyword in keywords if keyword in content_lower)
MatchCount(keywords, content_lower) ==
    Len(MatchedKeywords(keywords, content_lower))

\* the sign of the representation error of the double the product
\* min(1.0, base + matches * 0.05) * weight yields, recorded for the products
\* (in ten-thousandths) that sit on a rounding tie or on a threshold
ProductError(n) ==
    IF n \in {2250, 2750, 3000, 3850, 4950, 6000} THEN 1
    ELSE IF n \in {1750, 8550} THEN -1
    ELSE 0

\* mutant: the 3-4 step starts one match late
StaircaseLate(matches) ==
    LET raw == IF matches >= 5 THEN 70 + matches * 5
               ELSE IF matches > 3 THEN 40 + matches * 5
               ELSE 15 + matches * 5
    IN  IF raw > 100 THEN 100 ELSE raw

\* min(1.0, base + matches * 0.05), in hundredths
Staircase(matches) ==
    LET raw == IF matches >= 5 THEN 70 + matches * 5
               ELSE IF matches >= 3 THEN 40 + matches * 5
               ELSE 15 + matches * 5
    IN  IF raw > 100 THEN 100 ELSE raw

\* the category score for a positive match count
\* mutant: the weight of the category is not applied
CategoryScoreUnweighted(matches, weight) ==
    <<Staircase(matches), 100, 0>>

CategoryScore(matches, weight) ==
    LET n == Staircase(matches) * weight[1]
    IN  <<n, 100 * weight[2], ProductError(n)>>

\* mutant: the category scores are added up
RECURSIVE SumScore(_)
SumScore(scores) ==
    IF Len(scores) = 1 THEN scores[1].score
    ELSE <<scores[1].score[1] + SumScore(Tail(scores))[1], scores[1].score[2], 0>>

\* max(category_scores.values())
RECURSIVE MaxScore(_)
MaxScore(scores) ==
    IF Len(scores) = 1 THEN scores[1].score
    ELSE LET rest == MaxScore(Tail(scores))
         IN  IF FloatLt(scores[1].score, rest) THEN rest ELSE scores[1].score

\* `if category_scores: max(...) else: 0.0`
ClauseRiskScore(scores) == IF scores # <<>> THEN MaxScore(scores) ELSE Float(0, 1)

\* mutant: the ranges are open below and closed above
get_risk_level_closed_above(score) ==
    LET hits == {i \in 1..Len(RISK_THRESHOLDS) :
                    /\ FloatLt(RISK_THRESHOLDS[i].min_score, score)
                    /\ FloatLe(score, RISK_THRESHOLDS[i].max_score)}
    IN  IF hits = {} THEN "low"
        ELSE RISK_THRESHOLDS[CHOOSE i \in hits : \A j \in hits : i <= j].level

\* RiskAssessor._get_risk_level: the first range, in dict order, that holds
\* the score; 'low' when none does
_get_risk_level(score) ==
    LET hits == {i \in 1..Len(RISK_THRESHOLDS) :
                    /\ FloatLe(RISK_THRESHOLDS[i].min_score, score)
                    /\ FloatLt(score, RISK_THRESHOLDS[i].max_score)}
    IN  IF hits = {} THEN "low"
        ELSE RISK_THRESHOLDS[CHOOSE i \in hits : \A j \in hits : i <= j].level

\* one iteration of the loop over clauses: the local dict category_scores
\* and the appended result
AssessClause(clause) ==
    LET content_lower == lower(clause.content)
        matches == [c \in 1..Len(RISK_CATEGORIES) |->
                       MatchCount(RISK_CATEGORIES[c].keywords, content_lower)]
        found   == SelectSeq([c \in 1..Len(RISK_CATEGORIES) |-> c],
                             LAMBDA c : matches[c] > 0)
        scores  == [j \in 1..Len(found) |->
                       [category |-> RISK_CATEGORIES[found[j]].name,
                        score    |-> CategoryScore(matches[found[j]],
                                                   RISK_CATEGORIES[found[j]].weight)]]
        clause_risk_score == ClauseRiskScore(scores)
    IN  [category_scores |-> scores,
         result |->
           [clause_id       |-> clause.clause_id,
            clause_number   |-> clause.clause_number,
            content         |-> clause.content,
            risk_score      |-> round2(clause_risk_score),
            risk_level      |-> _get_risk_level(clause_risk_score),
            detected_risks  |-> [j \in 1..Len(found) |->
                                   [category |-> scores[j].category,
                                    score    |-> round2(scores[j].score),
                                    matched_keywords |->
                                        MatchedKeywords(RISK_CATEGORIES[found[j]].keywords,
                                                        content_lower)]],
            risk_categories |-> [j \in 1..Len(found) |-> scores[j].category]]]

\* mutant: the results in reverse order
assess_clause_risks_backwards(cs) ==
    [i \in 1..Len(cs) |-> AssessClause(cs[Len(cs) + 1 - i]).result]

assess_clause_risks(cs) == [i \in 1..Len(cs) |-> AssessClause(cs[i]).result]

----------------------------------------------------------------------------
(* Input clauses of the scorer                                             *)

MaxPhrases == 3

MaxProbe == 120

PhrasePool ==
    [penalty |-> <<"p","e","n","a","l","t","y">>,
     fine    |-> <<"f","i","n","e">>,
     ip      |-> <<"I","P"," ","r","i","g","h","t","s">>,
     custody |-> <<"t","e","m","p","o","r","a","r","y"," ","c","u","s","t","o","d","y">>,
     relinq  |-> <<"R","e","l","i","n","q","u","i","s","h","e","s"," ",
                   "S","o","l","e"," ","R","e","s","p","o","n","s","i","b","i","l","i","t","y">>,
     weight  |-> <<"w","e","i","g","h","t"," ","o","f">>,
     doubt   |-> <<"s","e","l","f","-","d","o","u","b","t"," ",
                   "w","o","r","t","h","l","e","s","s","n","e","s","s"," ",
                   "l","o","n","e","l","i","n","e","s","s">>,
     forum   |-> <<"A","r","b","i","t","r","a","t","i","o","n",","," ",
                   "D","i","s","p","u","t","e"," ","R","e","s","o","l","u","t","i","o","n",","," ",
                   "J","u","r","i","s","d","i","c","t","i","o","n",","," ",
                   "G","o","v","e","r","n","i","n","g"," ","L","a","w">>]

PhraseNames == DOMAIN PhrasePool

\* a clause record as the segmenter builds it, for the given position and content
InputClause(n, content) == ClauseRecord(n, ParaLabel(n), content)

----------------------------------------------------------------------------
(* The scorer's state machine                                              *)

InitRisk == InitSeg

\* the caller puts one clause, empty so far, in the list to assess; clauses
\* are scored independently of each other
NewClause ==
    /\ phase = "input"
    /\ clauses = <<>>
    /\ clauses' = Append(clauses, InputClause(Len(clauses) + 1, <<>>))
    /\ UNCHANGED <<text, pieces, phase, clause_risks, category_scores, overall, probe, contract_vars, engine_vars>>

\* the caller extends the content of the last clause by one phrase
AppendPhrase(p) ==
    /\ phase = "input"
    /\ clauses # <<>>
    /\ Len(pieces) < MaxPhrases
    /\ LET n   == Len(clauses)
           old == clauses[n].content
           new == IF old = <<>> THEN PhrasePool[p] ELSE old \o <<" ">> \o PhrasePool[p]
       IN  clauses' = [clauses EXCEPT ![n] = InputClause(n, new)]
    /\ pieces' = Append(pieces, p)
    /\ UNCHANGED <<text, phase, clause_risks, category_scores, overall, probe, contract_vars, engine_vars>>

\* assessor.assess_clause_risks(clauses)
AssessClauseRisks ==
    /\ phase = "input"
    /\ LET assessed == [i \in 1..Len(clauses) |-> AssessClause(clauses[i])]
       IN  /\ clause_risks' = [i \in 1..Len(clauses) |-> assessed[i].result]
           /\ category_scores' = [i \in 1..Len(clauses) |-> assessed[i].category_scores]
    /\ phase' = "assessed"
    /\ UNCHANGED <<text, pieces, clauses, overall, probe, contract_vars, engine_vars>>

\* assessor._get_risk_level(k / 100), for scores below, on and above every threshold
GetRiskLevel(k) ==
    /\ phase = "input"
    /\ clauses = <<>>
    /\ probe' = [score |-> Float(k, 100), level |-> _get_risk_level(Float(k, 100))]
    /\ phase' = "probed"
    /\ UNCHANGED <<text, pieces, clauses, clause_risks, category_scores, overall, contract_vars, engine_vars>>

NextRisk ==
    \/ NewClause
    \/ \E p \in PhraseNames : AppendPhrase(p)
    \/ AssessClauseRisks
    \/ \E k \in (0 - 10)..MaxProbe : GetRiskLevel(k)

SpecRisk == InitRisk /\ [][NextRisk]_vars

----------------------------------------------------------------------------
(* RiskAssessor.calculate_overall_risk                                     *)

\* sum(risk_scores), in hundredths
RECURSIVE SumRiskScores(_)
SumRiskScores(cr) ==
    IF cr = <<>> THEN 0 ELSE Head(cr).risk_score + SumRiskScores(Tail(cr))

\* sum(1 for c in clause_risks if c['risk_level'] == level)
CountLevel(cr, level) == Cardinality({i \in 1..Len(cr) : cr[i].risk_level = level})

\* mutant: the boost also applies at a ratio of exactly 0.3
BoostFromThreshold(high, total) == 10 * high >= 3 * total

\* high_risk_ratio > 0.3, for high_risk_ratio = high / total
Boost(high, total) == 10 * high > 3 * total

\* min(1.0, overall_score * 1.2)
Boosted(x, err) ==
    IF 12 * x[1] >= 10 * x[2] THEN Float(1, 1) ELSE <<12 * x[1], 10 * x[2], err>>

\* calculate_overall_risk(clause_risks); err is the sign of the error the
\* double arithmetic of the mean and the boost leaves on the exact value, 0
\* where a single score is returned as it came
calculate_overall_risk(cr, err) ==
    IF cr = <<>>
    THEN [score |-> 0, level |-> "low",
          distribution |-> [low |-> 0, medium |-> 0, high |-> 0]]
    ELSE LET total        == Len(cr)
             mean         == <<SumRiskScores(cr), 100 * total,
                               IF total = 1 THEN 0 ELSE err>>
             distribution == [low    |-> CountLevel(cr, "low"),
                              medium |-> CountLevel(cr, "medium"),
                              high   |-> CountLevel(cr, "high")]
             overall_score == IF Boost(distribution.high, total)
                              THEN Boosted(mean, err) ELSE mean
         IN  [score        |-> round2(overall_score),
              level        |-> _get_risk_level(overall_score),
              distribution |-> distribution]

----------------------------------------------------------------------------
(* Input clause risks of the aggregator                                    *)

MaxClauseRisks == 10

\* contents the scorer rates low (0.18), medium (0.30) and high (0.95)
RiskContents ==
    [low    |-> PhrasePool.fine,
     medium |-> PhrasePool.doubt,
     high   |-> PhrasePool.custody \o <<" ">> \o PhrasePool.relinq]

RiskNames == DOMAIN RiskContents

\* what assess_clause_risks returns for each of the contents
RiskPool == [r \in RiskNames |-> AssessClause(InputClause(1, RiskContents[r])).result]

\* the result for the content r when it is the n-th clause
RiskOfClause(n, r) ==
    [RiskPool[r] EXCEPT !.clause_id = InputClause(n, <<>>).clause_id,
                        !.clause_number = InputClause(n, <<>>).clause_number]

----------------------------------------------------------------------------
(* The aggregator as a state machine                                       *)

InitAgg == InitSeg

\* assess_clause_risks has rated one more clause
AddClauseRisk(r) ==
    /\ phase = "input"
    /\ Len(clause_risks) < MaxClauseRisks
    /\ clause_risks' = Append(clause_risks, RiskOfClause(Len(clause_risks) + 1, r))
    /\ UNCHANGED <<text, pieces, clauses, phase, category_scores, overall, probe, contract_vars, engine_vars>>

\* assessor.calculate_overall_risk(clause_risks)
CalculateOverallRisk ==
    /\ phase = "input"
    /\ \E err \in {0 - 1, 0, 1} : overall' = calculate_overall_risk(clause_risks, err)
    /\ phase' = "aggregated"
    /\ UNCHANGED <<text, pieces, clauses, clause_risks, category_scores, probe, contract_vars, engine_vars>>

NextAgg ==
    \/ \E r \in RiskNames : AddClauseRisk(r)
    \/ CalculateOverallRisk

SpecAgg == InitAgg /\ [][NextAgg]_vars

----------------------------------------------------------------------------
(* RiskAssessor.generate_risk_flags                                        *)

\* self.risk_categories.get(name, {}).get('keywords', [])
CategoryKeywords(name) ==
    LET at == {c \in 1..Len(RISK_CATEGORIES) : RISK_CATEGORIES[c].name = name}
    IN  IF at = {} THEN <<>> ELSE RISK_CATEGORIES[CHOOSE c \in at : TRUE].keywords

\* mutant: a keyword list of the generator's own, not the configured one
severe_manipulation_own ==
    <<<<"t","e","r","m","i","n","a","t","i","o","n">>, <<"l","i","a","b","i","l","i","t","y">>, <<"i","n","d","e","m","n","i","f","i","c","a","t","i","o","n">>>>

severe_manipulation == CategoryKeywords("manipulative_language")

moderate_manipulation == CategoryKeywords("emotional_pressure")

critical_clauses ==
    <<<<"t","e","r","m","i","n","a","t","i","o","n">>, <<"l","i","a","b","i","l","i","t","y">>, <<"i","n","d","e","m","n","i","f","i","c","a","t","i","o","n">>,
      <<"d","i","s","p","u","t","e"," ","r","e","s","o","l","u","t","i","o","n">>, <<"p","a","y","m","e","n","t">>, <<"c","o","n","f","i","d","e","n","t","i","a","l","i","t","y">>>>

penalty_keywords == <<<<"p","e","n","a","l","t","y">>, <<"l","i","q","u","i","d","a","t","e","d"," ","d","a","m","a","g","e","s">>, <<"f","i","n","e">>>>

auto_renewal_keywords ==
    <<<<"a","u","t","o","-","r","e","n","e","w">>, <<"a","u","t","o","m","a","t","i","c"," ","r","e","n","e","w","a","l">>, <<"a","u","t","o","m","a","t","i","c","a","l","l","y"," ","r","e","n","e","w">>>>

ip_keywords ==
    <<<<"a","s","s","i","g","n","s"," ","a","l","l">>, <<"t","r","a","n","s","f","e","r","s"," ","a","l","l">>, <<"o","w","n","e","r","s","h","i","p"," ","o","f"," ","i","n","t","e","l","l","e","c","t","u","a","l"," ","p","r","o","p","e","r","t","y">>>>

non_compete_keywords ==
    <<<<"n","o","n","-","c","o","m","p","e","t","e">>, <<"n","o","n","-","c","o","m","p","e","t","i","t","i","o","n">>, <<"r","e","s","t","r","a","i","n","t"," ","o","f"," ","t","r","a","d","e">>>>

payment_keywords == <<<<"p","a","y","m","e","n","t">>, <<"f","e","e">>, <<"c","o","m","p","e","n","s","a","t","i","o","n">>>>

\* any(kw in content for kw in keywords)
AnyKeyword(keywords, content) ==
    \E k \in 1..Len(keywords) : Contains(keywords[k], content)

\* s.replace(' ', '')
remove_spaces(s) == SelectSeq(s, LAMBDA c : c # " ")

\* a flag dictionary: `scoped` tells whether it has the key clause_id, `found`
\* is the number its description reports (0 if none) and `missing` the set of
\* topics its description names
Flag(type, severity, scoped, clause_id, found, missing) ==
    [type |-> type, severity |-> severity, scoped |-> scoped,
     clause_id |-> clause_id, found |-> found, missing |-> missing]

ClauseFlag(type, severity, clause) ==
    Flag(type, severity, TRUE, clause.clause_id, 0, {})

RECURSIVE Flatten(_)
Flatten(lists) ==
    IF lists = <<>> THEN <<>> ELSE Head(lists) \o Flatten(Tail(lists))

\* mutant: the two manipulation checks are independent ifs
ManipulationFlagBoth(clause) ==
    LET content_lower  == lower(clause.content)
        severe_count   == MatchCount(severe_manipulation, content_lower)
        moderate_count == MatchCount(moderate_manipulation, content_lower)
    IN  (IF severe_count >= 3
         THEN <<Flag("psychological_manipulation", "high", TRUE,
                     clause.clause_id, severe_count, {})>>
         ELSE <<>>)
        \o
        (IF moderate_count >= 3
         THEN <<Flag("emotional_manipulation", "medium", TRUE,
                     clause.clause_id, moderate_count, {})>>
         ELSE <<>>)

\* the manipulation check of one clause
ManipulationFlag(clause) ==
    LET content_lower  == lower(clause.content)
        severe_count   == MatchCount(severe_manipulation, content_lower)
        moderate_count == MatchCount(moderate_manipulation, content_lower)
    IN  IF severe_count >= 3
        THEN <<Flag("psychological_manipulation", "high", TRUE,
                    clause.clause_id, severe_count, {})>>
        ELSE IF moderate_count >= 3
        THEN <<Flag("emotional_manipulation", "medium", TRUE,
                    clause.clause_id, moderate_count, {})>>
        ELSE <<>>

\* mutant: the topics are looked up with their spaces
FoundClausesVerbatim(cs) ==
    {k \in 1..Len(critical_clauses) :
        \E i \in 1..Len(cs) : Contains(critical_clauses[k], lower(cs[i].content))}

\* found_clauses
FoundClauses(cs) ==
    {k \in 1..Len(critical_clauses) :
        \E i \in 1..Len(cs) :
            Contains(remove_spaces(critical_clauses[k]),
                     remove_spaces(lower(cs[i].content)))}

\* ', '.join(missing_clauses): the topics of the set in its iteration order,
\* taken as the order of the full set restricted to the topics present
join(seed, missing_clauses) ==
    LET order == SelectSeq(seed, LAMBDA k : k \in missing_clauses)
    IN  [n \in 1..Len(order) |-> critical_clauses[order[n]]]

\* mutant: the check is skipped for a document without clauses
MissingClauseFlagSkipEmpty(cs) ==
    LET missing_clauses == (1..Len(critical_clauses)) \ FoundClauses(cs)
    IN  IF missing_clauses # {} /\ cs # <<>>
        THEN <<Flag("missing_critical_clause", "high", FALSE, <<>>, 0,
                    {critical_clauses[k] : k \in missing_clauses})
               @@ [description |-> join(hash_seed, missing_clauses)]>>
        ELSE <<>>

\* the check for missing critical clauses
MissingClauseFlag(cs) ==
    LET missing_clauses == (1..Len(critical_clauses)) \ FoundClauses(cs)
    IN  IF missing_clauses # {}
        THEN <<Flag("missing_critical_clause", "high", FALSE, <<>>, 0,
                    {critical_clauses[k] : k \in missing_clauses})
               @@ [description |-> join(hash_seed, missing_clauses)]>>
        ELSE <<>>

\* the check for one-sided termination rights, of one clause
TerminationFlag(clause) ==
    LET content_lower == lower(clause.content)
    IN  IF /\ Contains(<<"t","e","r","m","i","n","a","t","i","o","n">>, content_lower)
           /\ \/ Contains(<<"a","t"," ","w","i","l","l">>, content_lower)
              \/ Contains(<<"s","o","l","e"," ","d","i","s","c","r","e","t","i","o","n">>, content_lower)
        THEN <<ClauseFlag("unilateral_termination", "high", clause)>>
        ELSE <<>>

\* penalty_clauses
PenaltyClauses(cs) ==
    SelectSeq(cs, LAMBDA c : AnyKeyword(penalty_keywords, lower(c.content)))

\* mutant: one penalty flag for each matching clause
PenaltyFlagPerClause(cs) ==
    [i \in 1..Len(PenaltyClauses(cs)) |->
        Flag("penalty_clause", "medium", FALSE, <<>>, Len(PenaltyClauses(cs)), {})]

\* the check for excessive penalties
PenaltyFlag(cs) ==
    IF PenaltyClauses(cs) # <<>>
    THEN <<Flag("penalty_clause", "medium", FALSE, <<>>, Len(PenaltyClauses(cs)), {})>>
    ELSE <<>>

\* the keyword checks of one clause: auto-renewal, IP transfer, non-compete
KeywordFlag(type, severity, keywords, clause) ==
    IF AnyKeyword(keywords, lower(clause.content))
    THEN <<ClauseFlag(type, severity, clause)>>
    ELSE <<>>

\* the check for broad indemnification, of one clause
IndemnityFlag(clause) ==
    LET content_lower == lower(clause.content)
    IN  IF /\ Contains(<<"i","n","d","e","m","n","i","f">>, content_lower)
           /\ \/ Contains(<<"a","n","y"," ","a","n","d"," ","a","l","l">>, content_lower)
              \/ Contains(<<"u","n","l","i","m","i","t","e","d">>, content_lower)
        THEN <<ClauseFlag("broad_indemnity", "high", clause)>>
        ELSE <<>>

\* the character U+20B9 (Indian rupee sign)
RupeeSign == "rupee sign"

\* re.search(r'₹|Rs\.?|\$|USD|INR|[0-9,]+', content)
has_amount(content) ==
    \E p \in 1..Len(content) :
        \/ content[p] = RupeeSign
        \/ HasAt(content, p, <<"R","s">>)
        \/ content[p] = "$"
        \/ HasAt(content, p, <<"U","S","D">>)
        \/ HasAt(content, p, <<"I","N","R">>)
        \/ IsDigit(content[p])
        \/ content[p] = ","

\* re.search(r'\d+\s*days?|within|by|before|after', content)
has_date(content) ==
    \E p \in 1..Len(content) :
        \/ IsDigit(content[p])
           /\ HasAt(content, SkipSpaces(content, p + 1), <<"d","a","y">>)
        \/ HasAt(content, p, <<"w","i","t","h","i","n">>)
        \/ HasAt(content, p, <<"b","y">>)
        \/ HasAt(content, p, <<"b","e","f","o","r","e">>)
        \/ HasAt(content, p, <<"a","f","t","e","r">>)

\* the check for ambiguous payment terms, of one clause
AmbiguousPaymentFlag(clause) ==
    IF /\ AnyKeyword(payment_keywords, lower(clause.content))
       /\ ~has_amount(clause.content) \/ ~has_date(clause.content)
    THEN <<ClauseFlag("ambiguous_payment", "medium", clause)>>
    ELSE <<>>

\* RiskAssessor.generate_risk_flags(clauses, nlp_analysis); nlp_analysis is
\* not read
generate_risk_flags(cs) ==
    LET each(F(_)) == Flatten([i \in 1..Len(cs) |-> F(cs[i])])
        AutoRenewal(c) == KeywordFlag("auto_renewal", "medium", auto_renewal_keywords, c)
        IpTransfer(c)  == KeywordFlag("ip_transfer", "high", ip_keywords, c)
        NonCompete(c)  == KeywordFlag("non_compete", "high", non_compete_keywords, c)
    IN  each(ManipulationFlag)
        \o MissingClauseFlag(cs)
        \o each(TerminationFlag)
        \o PenaltyFlag(cs)
        \o each(AutoRenewal)
        \o each(IpTransfer)
        \o each(IndemnityFlag)
        \o each(NonCompete)
        \o each(AmbiguousPaymentFlag)

----------------------------------------------------------------------------
(* RiskAssessor.detect_unfavorable_terms and the localization lookups      *)

\* `.*word` matched from position e: word begins at or after e on the same line
FollowsOnLine(s, e, word) ==
    \E q \in e..Len(s) :
        /\ HasAt(s, q, word)
        /\ \A j \in e..(q - 1) : s[j] # "\n"

\* some alternative of `words` is at position p, and Then(e) holds for the
\* position e after it
AltAt(s, p, words, Then(_)) ==
    \E k \in 1..Len(words) : HasAt(s, p, words[k]) /\ Then(p + Len(words[k]))

\* the archetypes in the order of the dict unfavorable_patterns; `plain` are
\* the alternatives without lookaround
unfavorable_patterns ==
    <<[term_type |-> "Psychological Manipulation",
       plain |-> <<<<"u","n","k","n","o","w","i","n","g","l","y"," ","a","g","r","e","e","s">>, <<"k","n","o","w","i","n","g","l","y"," ","a","c","c","e","p","t","s">>, <<"t","e","m","p","o","r","a","r","y"," ","c","u","s","t","o","d","y">>,
                   <<"m","e","n","t","a","l"," ","s","t","a","t","e">>, <<"s","e","l","f","-","b","l","a","m","e">>, <<"i","l","l","u","s","i","o","n"," ","o","f"," ","c","o","n","t","r","o","l">>,
                   <<"r","e","l","i","n","q","u","i","s","h">>, <<"p","e","r","s","o","n","a","l"," ","a","c","c","o","u","n","t","a","b","i","l","i","t","y">>, <<"w","e","i","g","h","t"," ","o","f">>,
                   <<"n","o"," ","e","x","t","e","r","n","a","l"," ","s","y","s","t","e","m">>, <<"r","e","s","i","l","i","e","n","c","e"," ","i","s"," ","b","u","i","l","t">>>>],
      [term_type |-> "Emotional Manipulation",
       plain |-> <<<<"u","n","r","e","s","o","l","v","e","d"," ","t","h","o","u","g","h","t","s">>, <<"d","e","l","a","y","e","d"," ","a","m","b","i","t","i","o","n","s">>,
                   <<"f","e","a","r"," ","o","f"," ","f","a","l","l","i","n","g"," ","b","e","h","i","n","d">>, <<"w","o","r","t","h","l","e","s","s","n","e","s","s">>, <<"s","e","l","f","-","d","o","u","b","t">>,
                   <<"c","o","n","t","r","o","l","l","e","d"," ","e","x","p","o","s","u","r","e">>, <<"c","o","m","p","a","r","i","s","o","n"," ","m","a","y"," ","o","c","c","u","r">>,
                   <<"c","o","n","f","i","d","e","n","c","e"," ","m","a","y"," ","d","i","p">>, <<"s","i","l","e","n","c","e"," ","f","r","o","m"," ","o","t","h","e","r","s">>, <<"a","v","o","i","d","i","n","g"," ","t","r","u","t","h">>,
                   <<"d","i","s","c","o","m","f","o","r","t"," ","m","a","y"," ","b","e"," ","n","e","c","e","s","s","a","r","y">>, <<"n","o"," ","r","e","a","s","s","u","r","a","n","c","e">>>>],
      [term_type |-> "Unlimited Liability",
       plain |-> <<<<"u","n","l","i","m","i","t","e","d"," ","l","i","a","b","i","l","i","t","y">>, <<"w","i","t","h","o","u","t"," ","l","i","m","i","t">>, <<"n","o"," ","c","a","p"," ","o","n"," ","l","i","a","b","i","l","i","t","y">>>>],
      [term_type |-> "Waiver of Rights",
       plain |-> <<<<"w","a","i","v","e","s"," ","a","l","l">>, <<"w","a","i","v","e","r"," ","o","f"," ","r","i","g","h","t","s">>, <<"f","o","r","e","g","o","e","s"," ","a","n","y"," ","r","i","g","h","t">>>>],
      [term_type |-> "Unilateral Amendment", plain |-> <<>>],
      [term_type |-> "Exclusive Remedy",
       plain |-> <<<<"s","o","l","e"," ","a","n","d"," ","e","x","c","l","u","s","i","v","e"," ","r","e","m","e","d","y">>, <<"o","n","l","y"," ","r","e","m","e","d","y">>, <<"l","i","m","i","t","e","d"," ","t","o">>>>],
      [term_type |-> "No Warranty",
       plain |-> <<<<"a","s"," ","i","s">>, <<"w","i","t","h","o","u","t"," ","w","a","r","r","a","n","t","y">>, <<"n","o"," ","w","a","r","r","a","n","t","i","e","s">>,
                   <<"d","i","s","c","l","a","i","m","s"," ","a","l","l"," ","w","a","r","r","a","n","t","i","e","s">>>>],
      [term_type |-> "Indefinite Term",
       plain |-> <<<<"p","e","r","p","e","t","u","a","l">>, <<"i","n","d","e","f","i","n","i","t","e">>, <<"n","o"," ","e","x","p","i","r","a","t","i","o","n">>, <<"i","n"," ","p","e","r","p","e","t","u","i","t","y">>>>],
      [term_type |-> "Broad Assignment",
       plain |-> <<<<"f","r","e","e","l","y"," ","a","s","s","i","g","n">>, <<"w","i","t","h","o","u","t"," ","c","o","n","s","e","n","t">>, <<"m","a","y"," ","a","s","s","i","g","n">>>>],
      [term_type |-> "Excessive Notice", plain |-> <<>>]>>

\* custody.*(?:doubts|fears|thoughts|emotions)
CustodyOf(s) ==
    LET feelings == <<<<"d","o","u","b","t","s">>, <<"f","e","a","r","s">>, <<"t","h","o","u","g","h","t","s">>, <<"e","m","o","t","i","o","n","s">>>>
    IN  \E p \in 1..Len(s) :
            /\ HasAt(s, p, <<"c","u","s","t","o","d","y">>)
            /\ \E k \in 1..Len(feelings) : FollowsOnLine(s, p + 7, feelings[k])

\* (may amend|can modify|right to change)(?!.*mutual|.*both parties)
AmendsAlone(s) ==
    LET NotMutual(e) == /\ ~FollowsOnLine(s, e, <<"m","u","t","u","a","l">>)
                        /\ ~FollowsOnLine(s, e, <<"b","o","t","h"," ","p","a","r","t","i","e","s">>)
    IN  \E p \in 1..Len(s) :
            AltAt(s, p, <<<<"m","a","y"," ","a","m","e","n","d">>, <<"c","a","n"," ","m","o","d","i","f","y">>, <<"r","i","g","h","t"," ","t","o"," ","c","h","a","n","g","e">>>>, NotMutual)

\* (90 days|120 days|six months|one year)(?=.*notice)
LongNotice(s) ==
    LET Notice(e) == FollowsOnLine(s, e, <<"n","o","t","i","c","e">>)
    IN  \E p \in 1..Len(s) :
            AltAt(s, p, <<<<"9","0"," ","d","a","y","s">>, <<"1","2","0"," ","d","a","y","s">>, <<"s","i","x"," ","m","o","n","t","h","s">>, <<"o","n","e"," ","y","e","a","r">>>>, Notice)

\* re.search(pattern, content) for the a-th archetype; (?i) is matching on
\* the lower-cased content
Fires(a, content) ==
    LET s == lower(content)
    IN  \/ AnyKeyword(unfavorable_patterns[a].plain, s)
        \/ a = 1 /\ CustodyOf(s)
        \/ a = 5 /\ AmendsAlone(s)
        \/ a = 10 /\ LongNotice(s)

\* self.hindi_translations: for each translated name, the keys of its entry
hindi_translations ==
    [name \in {"Psychological Manipulation", "Emotional Manipulation",
               "Unlimited Liability", "Waiver of Rights", "Unilateral Amendment",
               "Ambiguous Payment Terms"} |->
        IF name = "Ambiguous Payment Terms"
        THEN {"title", "description", "recommendation"}
        ELSE {"title", "explanation", "recommendation"}]

\* the keys of the dicts explanations and alternatives
DefaultNames == {unfavorable_patterns[a].term_type : a \in 1..Len(unfavorable_patterns)}

\* the outcome of a lookup: a string, named by the table and keys that hold
\* it, or the exception raised
Returned(where) == [raised |-> FALSE, text |-> where]

Raised(exception) == [raised |-> TRUE, text |-> exception]

\* the lookup shared by _get_unfavorable_explanation and
\* _get_alternative_suggestion: hindi_translations[term_type][key] for a
\* Hindi assessor and a translated name, else table.get(term_type, default)
Localized(lang, term_type, key, table) ==
    IF Contains(<<"H","i","n","d","i">>, lang) /\ term_type \in DOMAIN hindi_translations
    THEN IF key \in hindi_translations[term_type]
         THEN Returned(<<"hindi_translations", term_type, key>>)
         ELSE Raised(<<"KeyError", key>>)
    ELSE IF term_type \in DefaultNames
         THEN Returned(<<table, term_type>>)
         ELSE Returned(<<table, "default">>)

\* RiskAssessor._get_unfavorable_explanation
_get_unfavorable_explanation(lang, term_type) ==
    Localized(lang, term_type, "explanation", "explanations")

\* RiskAssessor._get_alternative_suggestion
_get_alternative_suggestion(lang, term_type) ==
    Localized(lang, term_type, "recommendation", "alternatives")

\* clause['content'][:200] + '...' if len(clause['content']) > 200 else clause['content']
Excerpt(content) ==
    IF Len(content) > 200
    THEN SubSeq(content, 1, 200) \o <<".", ".", ".">>
    ELSE content

\* mutant: the scan of a clause stops at its first archetype
UnfavorableInFirst(clause, lang) ==
    LET hits == {a \in 1..Len(unfavorable_patterns) : Fires(a, clause.content)}
    IN  IF hits = {} THEN <<>>
        ELSE LET a == CHOOSE x \in hits : \A y \in hits : x <= y
             IN  <<[clause_id     |-> clause.clause_id,
                    clause_number |-> clause.clause_number,
                    term_type     |-> unfavorable_patterns[a].term_type,
                    content       |-> Excerpt(clause.content),
                    explanation   |-> _get_unfavorable_explanation(
                                          lang, unfavorable_patterns[a].term_type),
                    alternative   |-> _get_alternative_suggestion(
                                          lang, unfavorable_patterns[a].term_type)]>>

\* the inner loop of detect_unfavorable_terms: the entries of one clause
UnfavorableIn(clause, lang) ==
    LET hits == SelectSeq([a \in 1..Len(unfavorable_patterns) |-> a],
                          LAMBDA a : Fires(a, clause.content))
    IN  [j \in 1..Len(hits) |->
            [clause_id     |-> clause.clause_id,
             clause_number |-> clause.clause_number,
             term_type     |-> unfavorable_patterns[hits[j]].term_type,
             content       |-> Excerpt(clause.content),
             explanation   |-> _get_unfavorable_explanation(
                                   lang, unfavorable_patterns[hits[j]].term_type),
             alternative   |-> _get_alternative_suggestion(
                                   lang, unfavorable_patterns[hits[j]].term_type)]]

\* RiskAssessor.detect_unfavorable_terms
detect_unfavorable_terms(cs, lang) ==
    Flatten([i \in 1..Len(cs) |-> UnfavorableIn(cs[i], lang)])

----------------------------------------------------------------------------
(* RiskAssessor.assess_contract_risk                                       *)

\* mutant: the first high clause only
first_high_risk_clause(cr) ==
    LET high == SelectSeq(cr, LAMBDA c : c.risk_level = "high")
    IN  IF high = <<>> THEN <<>> ELSE <<Head(high)>>

\* [c for c in clause_risks if c['risk_level'] == 'high']
high_risk_clauses_of(cr) == SelectSeq(cr, LAMBDA c : c.risk_level = "high")

\* assess_contract_risk(clauses, nlp_analysis) of an assessor with language
\* lang; the keys carried are those computed from the clauses by the
\* scorer, the aggregator, the flag generator and the unfavorable-term scan
assess_contract_risk(cs, lang, err) ==
    LET cr           == assess_clause_risks(cs)
        overall_risk == calculate_overall_risk(cr, err)
    IN  [overall_risk_score |-> overall_risk.score,
         overall_risk_level |-> overall_risk.level,
         risk_distribution  |-> overall_risk.distribution,
         clause_risks       |-> cr,
         high_risk_clauses  |-> high_risk_clauses_of(cr),
         risk_flags         |-> generate_risk_flags(cs),
         unfavorable_terms  |-> detect_unfavorable_terms(cs, lang)]

----------------------------------------------------------------------------
(* TemplateMatcher.match_clauses_to_templates                              *)

\* the keys of the template library, in its iteration order
templates ==
    <<<<"p","a","y","m","e","n","t","_","t","e","r","m","s">>, <<"t","e","r","m","i","n","a","t","i","o","n">>, <<"l","i","a","b","i","l","i","t","y">>, <<"i","n","d","e","m","n","i","f","i","c","a","t","i","o","n">>,
      <<"c","o","n","f","i","d","e","n","t","i","a","l","i","t","y">>, <<"i","p","_","r","i","g","h","t","s">>, <<"d","i","s","p","u","t","e","_","r","e","s","o","l","u","t","i","o","n">>,
      <<"f","o","r","c","e","_","m","a","j","e","u","r","e">>, <<"w","a","r","r","a","n","t","y">>, <<"a","m","e","n","d","m","e","n","t">>>>

\* template_data['key_points'] of the default templates, in the same order
default_key_points ==
    <<<<"Clear payment timeline", "Reasonable interest on late payment", "Right to withhold for non-performance">>,
      <<"Equal termination rights for both parties", "Reasonable notice period", "Opportunity to cure breaches">>,
      <<"Capped liability amount", "Mutual limitation", "Exclusion of consequential damages">>,
      <<"Mutual indemnification", "Specific triggering events", "Limited to direct damages">>,
      <<"Defined confidentiality period", "Clear exclusions", "Mutual obligations">>,
      <<"Pre-existing IP remains with creator", "Clear ownership of new IP", "License rights defined">>,
      <<"Negotiation first approach", "Mediation option", "Arbitration in India">>,
      <<"Clear definition of Force Majeure", "Notice requirement", "Mitigation obligation">>,
      <<"Professional standard commitment", "Conformance to specifications", "Limited warranty period">>,
      <<"Written amendments only", "Mutual consent required", "No oral modifications">>>>

\* the value of a JSON text, or of the dict it was written from: an object
\* of templates or another JSON value
JsonObject(entries) == [json |-> "object", entries |-> entries]

JsonArray == [json |-> "array", entries |-> <<>>]

\* TemplateMatcher._get_default_templates(): the key and the key_points
\* list of each template (title and template text are immutable strings)
_get_default_templates ==
    JsonObject([t \in 1..Len(templates) |->
                   [template_key |-> templates[t], key_points |-> default_key_points[t]]])

\* json.dump(templates, f) into a file opened for writing
json_dump(value) == [state |-> "json", value |-> value]

\* json.load(f) of a file that holds JSON text
json_load(file) == file.value

\* clause.get('type')
get_type(clause) == IF "type" \in DOMAIN clause THEN clause.type ELSE <<"None">>

\* clause.get('type', 'General').lower()
clause_type_of(clause) ==
    lower(IF "type" \in DOMAIN clause THEN clause.type ELSE <<"G","e","n","e","r","a","l">>)

\* template_key in clause_type or clause_type in template_key
type_match(template_key, clause_type) ==
    \/ Contains(template_key, clause_type)
    \/ Contains(clause_type, template_key)

\* the sign of the error of the double k/100 + 0.2 against the double
\* nearest to (k + 20)/100
BoostError(k) ==
    IF k \in {1, 4, 9, 10, 21, 22, 23, 27, 28, 37, 38, 39, 40,
              62, 63, 64, 65, 66, 67, 68, 93} THEN 1
    ELSE IF k \in {47, 48, 69, 70, 71, 72, 73} THEN 0 - 1
    ELSE 0

\* similarity, after `similarity += 0.2` where the type matches; ratio is
\* what _calculate_similarity returned, in hundredths
BoostedSimilarity(ratio, boost) ==
    IF boost THEN <<ratio + 20, 100, BoostError(ratio)>> ELSE Float(ratio, 100)

\* the loop over self.templates.items() from the t-th template on; best is
\* the pair of best_match (0 for None) and best_score
RECURSIVE BestMatch(_, _, _, _)
BestMatch(clause_type, ratios, t, best) ==
    IF t > Len(templates) THEN best
    ELSE LET sim == BoostedSimilarity(ratios[t], type_match(templates[t], clause_type))
         IN  BestMatch(clause_type, ratios, t + 1,
                       IF FloatLt(best.best_score, sim)
                       THEN [best_match |-> t, best_score |-> sim]
                       ELSE best)

\* the body of the loop over the clauses: the entry appended for one clause
TemplateMatch(clause, ratios) ==
    LET best == BestMatch(clause_type_of(clause), ratios, 1,
                          [best_match |-> 0, best_score |-> Float(0, 1)])
    IN  IF best.best_match # 0 /\ FloatLt(Float(3, 10), best.best_score)
        THEN <<[clause_id        |-> clause.clause_id,
                clause_number    |-> clause.clause_number,
                clause_type      |-> get_type(clause),
                template_key     |-> templates[best.best_match],
                template_data    |-> best.best_match,
                similarity_score |-> round2(best.best_score)]>>
        ELSE <<>>

\* mutant: the list of an earlier call is kept
matches_kept == template_matches

\* matches = []
matches == <<>>

\* match_clauses_to_templates(clauses); sim[i][t] is the ratio
\* _calculate_similarity returns for the i-th clause and the t-th template
match_clauses_to_templates(cs, sim) ==
    matches \o Flatten([i \in 1..Len(cs) |-> TemplateMatch(cs[i], sim[i])])

----------------------------------------------------------------------------
(* NLPAnalyzer.analyze_clauses: the classified type of a clause             *)

\* clause_types of _classify_clause_type, in dict order
clause_types ==
    <<[name |-> <<"P","a","y","m","e","n","t">>,
       keywords |-> <<<<"p","a","y","m","e","n","t">>, <<"f","e","e">>, <<"c","o","m","p","e","n","s","a","t","i","o","n">>, <<"i","n","v","o","i","c","e">>, <<"r","e","m","u","n","e","r","a","t","i","o","n">>>>],
      [name |-> <<"T","e","r","m","i","n","a","t","i","o","n">>,
       keywords |-> <<<<"t","e","r","m","i","n","a","t","i","o","n">>, <<"t","e","r","m","i","n","a","t","e">>, <<"e","n","d"," ","t","h","e"," ","a","g","r","e","e","m","e","n","t">>, <<"c","a","n","c","e","l">>>>],
      [name |-> <<"L","i","a","b","i","l","i","t","y">>,
       keywords |-> <<<<"l","i","a","b","i","l","i","t","y">>, <<"l","i","a","b","l","e">>, <<"i","n","d","e","m","n","i","f","y">>, <<"i","n","d","e","m","n","i","f","i","c","a","t","i","o","n">>>>],
      [name |-> <<"C","o","n","f","i","d","e","n","t","i","a","l","i","t","y">>,
       keywords |-> <<<<"c","o","n","f","i","d","e","n","t","i","a","l">>, <<"n","o","n","-","d","i","s","c","l","o","s","u","r","e">>, <<"s","e","c","r","e","t">>, <<"p","r","o","p","r","i","e","t","a","r","y">>>>],
      [name |-> <<"I","n","t","e","l","l","e","c","t","u","a","l"," ","P","r","o","p","e","r","t","y">>,
       keywords |-> <<<<"i","n","t","e","l","l","e","c","t","u","a","l"," ","p","r","o","p","e","r","t","y">>, <<"i","p">>, <<"c","o","p","y","r","i","g","h","t">>, <<"p","a","t","e","n","t">>, <<"t","r","a","d","e","m","a","r","k">>>>],
      [name |-> <<"W","a","r","r","a","n","t","y">>,
       keywords |-> <<<<"w","a","r","r","a","n","t","y">>, <<"w","a","r","r","a","n","t","s">>, <<"g","u","a","r","a","n","t","e","e">>, <<"r","e","p","r","e","s","e","n","t","a","t","i","o","n">>>>],
      [name |-> <<"D","i","s","p","u","t","e"," ","R","e","s","o","l","u","t","i","o","n">>,
       keywords |-> <<<<"d","i","s","p","u","t","e">>, <<"a","r","b","i","t","r","a","t","i","o","n">>, <<"m","e","d","i","a","t","i","o","n">>, <<"l","i","t","i","g","a","t","i","o","n">>>>],
      [name |-> <<"G","o","v","e","r","n","i","n","g"," ","L","a","w">>,
       keywords |-> <<<<"g","o","v","e","r","n","i","n","g"," ","l","a","w">>, <<"j","u","r","i","s","d","i","c","t","i","o","n">>, <<"a","p","p","l","i","c","a","b","l","e"," ","l","a","w">>>>],
      [name |-> <<"F","o","r","c","e"," ","M","a","j","e","u","r","e">>,
       keywords |-> <<<<"f","o","r","c","e"," ","m","a","j","e","u","r","e">>, <<"a","c","t"," ","o","f"," ","g","o","d">>, <<"u","n","f","o","r","e","s","e","e","a","b","l","e">>>>],
      [name |-> <<"A","s","s","i","g","n","m","e","n","t">>,
       keywords |-> <<<<"a","s","s","i","g","n","m","e","n","t">>, <<"a","s","s","i","g","n">>, <<"t","r","a","n","s","f","e","r">>>>],
      [name |-> <<"A","m","e","n","d","m","e","n","t">>,
       keywords |-> <<<<"a","m","e","n","d","m","e","n","t">>, <<"m","o","d","i","f","y">>, <<"c","h","a","n","g","e">>, <<"a","l","t","e","r">>>>],
      [name |-> <<"N","o","n","-","C","o","m","p","e","t","e">>,
       keywords |-> <<<<"n","o","n","-","c","o","m","p","e","t","e">>, <<"n","o","n","-","c","o","m","p","e","t","i","t","i","o","n">>, <<"r","e","s","t","r","a","i","n","t"," ","o","f"," ","t","r","a","d","e">>>>],
      [name |-> <<"R","e","n","e","w","a","l">>,
       keywords |-> <<<<"r","e","n","e","w","a","l">>, <<"r","e","n","e","w">>, <<"e","x","t","e","n","d">>, <<"a","u","t","o","-","r","e","n","e","w">>>>]>>

\* sum(1 for keyword in keywords if keyword in text_lower)
TypeScore(k, text_lower) ==
    Cardinality({w \in 1..Len(clause_types[k].keywords) :
                    Contains(clause_types[k].keywords[w], text_lower)})

\* NLPAnalyzer._classify_clause_type: max(scores, key=scores.get) is the
\* first type of the highest score; 'General' when no keyword occurs
_classify_clause_type(clause_text) ==
    LET text_lower == lower(clause_text)
        scores == [k \in 1..Len(clause_types) |-> TypeScore(k, text_lower)]
    IN  IF \A k \in DOMAIN scores : scores[k] = 0 THEN <<"G","e","n","e","r","a","l">>
        ELSE clause_types[CHOOSE k \in DOMAIN scores :
                              /\ \A j \in DOMAIN scores : scores[j] <= scores[k]
                              /\ \A j \in 1..(k - 1) : scores[j] < scores[k]].name

\* NLPAnalyzer.analyze_clauses: each clause with its 'type'
analyze_clauses(cs) ==
    [i \in 1..Len(cs) |-> cs[i] @@ [type |-> _classify_clause_type(cs[i].content)]]

----------------------------------------------------------------------------
(* Inputs of the template matcher                                          *)

\* ratios of SequenceMatcher, in hundredths
SimilarityPool == {0, 10, 29, 30, 31, 40, 60, 85, 100}

\* the templates that a clause can resemble
Resembled == {1, 2, 8}

\* the ratios of one clause: 0 for the templates it does not resemble
Ratios == {[t \in 1..Len(templates) |-> IF t \in Resembled THEN r[t] ELSE 0] :
              r \in [Resembled -> SimilarityPool]}

\* the ratios of a clause that resembles no template or only the first
PlainRatios == {[t \in 1..Len(templates) |-> IF t = 1 THEN k ELSE 0] : k \in {0, 31}}

\* the content of the clause that is matched
MatchedContent ==
    <<"E", "i", "t", "h", "e", "r", " ", "p", "a", "r", "t", "y", " ", "m", "a", "y", " ", "t", "e", "r", "m", "i", "n", "a", "t", "e">>

\* the types NLPAnalyzer.analyze_clauses gives
ClauseTypes == {<<"G","e","n","e","r","a","l">>, <<"P","a","y","m","e","n","t">>, <<"T","e","r","m","i","n","a","t","i","o","n">>, <<"F","o","r","c","e"," ","M","a","j","e","u","r","e">>}

----------------------------------------------------------------------------
(* The template matcher as a state machine                                 *)

\* a process whose matcher was constructed without a template file
InitMatcher ==
    \E seed \in HashSeeds :
        InitEngine(seed, Constructed(_get_default_templates), "writable",
                   json_dump(_get_default_templates))

InitTemplate == InitMatcher

\* the caller passes one clause as extract_clauses returns it
UntypedClause ==
    /\ phase = "input"
    /\ clauses = <<>>
    /\ clauses' = <<InputClause(1, MatchedContent)>>
    /\ UNCHANGED <<text, pieces, phase, clause_risks, category_scores, overall, probe,
                   contract_vars, engine_vars>>

\* the caller passes one clause as analyze_clauses returns it
TypedClause(type) ==
    /\ phase = "input"
    /\ clauses = <<>>
    /\ clauses' = <<InputClause(1, MatchedContent) @@ [type |-> type]>>
    /\ UNCHANGED <<text, pieces, phase, clause_risks, category_scores, overall, probe,
                   contract_vars, engine_vars>>

\* template_matcher.match_clauses_to_templates(clauses)
MatchClausesToTemplates(sim) ==
    /\ phase \in {"input", "segmented"}
    /\ similarity' = sim
    /\ template_matches' = match_clauses_to_templates(clauses, sim)
    /\ phase' = "matched"
    /\ UNCHANGED <<text, pieces, clauses, clause_risks, category_scores, overall, probe,
                   results, lookup, engine_vars>>

NextTemplate ==
    \/ UntypedClause
    \/ \E type \in ClauseTypes : TypedClause(type)
    \/ \E sim \in [1..Len(clauses) -> Ratios] : MatchClausesToTemplates(sim)

SpecTemplate == InitTemplate /\ [][NextTemplate]_vars

----------------------------------------------------------------------------
(* Input clauses of the contract assessment                                *)

MaxContractClauses == 2

ContractPool ==
    [plain |-> <<"t","h","e"," ","p","a","r","t","i","e","s"," ","a","g","r","e","e"," ","a","s"," ","f","o","l","l","o","w","s">>,
     penal |-> <<"p","e","n","a","l","t","y"," ","a","n","d"," ","f","i","n","e">>,
     grip  |-> PhrasePool.custody \o <<" ">> \o PhrasePool.relinq,
     both  |-> PhrasePool.relinq \o <<" ">> \o PhrasePool.doubt,
     near  |-> PhrasePool.custody \o <<" ">> \o PhrasePool.doubt,
     doubt |-> PhrasePool.doubt,
     terms |-> <<"T","e","r","m","i","n","a","t","i","o","n"," ","a","t"," ","w","i","l","l",","," ","l","i","a","b","i","l","i","t","y",","," ","i","n","d","e","m","n","i","f","i","c","a","t","i","o","n"," ","f","o","r"," ","a","n","y"," ","a","n","d"," ","a","l","l",","," ","d","i","s","p","u","t","e","r","e","s","o","l","u","t","i","o","n",","," ","c","o","n","f","i","d","e","n","t","i","a","l","i","t","y",","," ","p","a","y"," ","m","e","n","t">>,
     pay   |-> <<"P","a","y","m","e","n","t"," ","B","Y"," ","5"," ","D","A","Y","S">>,
     amend |-> <<"m","a","y"," ","a","m","e","n","d"," ","b","y"," ","m","u","t","u","a","l"," ","c","o","n","s","e","n","t",","," ","m","a","y"," ","a","s","s","i","g","n"," ","w","i","t","h","o","u","t"," ","l","i","m","i","t"," ","i","n"," ","p","e","r","p","e","t","u","i","t","y",","," ","9","0"," ","d","a","y","s"," ","n","o","t","i","c","e">>,
     renew |-> <<"a","u","t","o","m","a","t","i","c"," ","r","e","n","e","w","a","l",","," ","n","o","n","-","c","o","m","p","e","t","e",","," ","a","s","s","i","g","n","s"," ","a","l","l",","," ","c","a","n"," ","m","o","d","i","f","y">>]

ContractNames == DOMAIN ContractPool

\* RiskAssessor(language=...): the values of the application's selector
Languages == {<<"E","n","g","l","i","s","h">>, <<"H","i","n","d","i"," ","(","L","i","m","i","t","e","d",")">>}

----------------------------------------------------------------------------
(* The contract assessment as a state machine                              *)

InitContract == InitMatcher

\* the caller puts one more clause in the list
AddClause(c) ==
    /\ phase = "input"
    /\ Len(clauses) < MaxContractClauses
    /\ clauses' = Append(clauses, InputClause(Len(clauses) + 1, ContractPool[c]))
    /\ pieces' = Append(pieces, c)
    /\ UNCHANGED <<text, phase, clause_risks, category_scores, overall, probe, contract_vars, engine_vars>>

\* parser.extract_clauses('')
ExtractNoClauses ==
    /\ pieces = <<>>
    /\ ExtractClauses

\* RiskAssessor(language=lang).assess_contract_risk(clauses, nlp_analysis)
AssessContractRisk(lang) ==
    /\ phase \in {"input", "segmented"}
    /\ \E err \in {0 - 1, 0, 1} : results' = assess_contract_risk(clauses, lang, err)
    /\ phase' = "assessed"
    /\ UNCHANGED <<text, pieces, clauses, clause_risks, category_scores, overall, probe,
                   lookup, similarity, template_matches, engine_vars>>

NextContract ==
    \/ \E c \in ContractNames : AddClause(c)
    \/ ExtractNoClauses
    \/ \E lang \in Languages : AssessContractRisk(lang)
    \/ \E sim \in [1..Len(clauses) -> PlainRatios] : MatchClausesToTemplates(sim)

SpecContract == InitContract /\ [][NextContract]_vars

----------------------------------------------------------------------------
(* The localization lookups as a state machine                             *)

\* language tags given to RiskAssessor(language=...); the application offers
\* the first two
LanguageTags ==
    {<<"E","n","g","l","i","s","h">>, <<"H","i","n","d","i"," ","(","L","i","m","i","t","e","d",")">>, <<"H","i","n","d","i">>, <<"h","i","n","d","i">>, <<"H","I","N","D","I">>, <<>>}

\* names passed to the lookups: the archetypes, the translated names and
\* names that no table holds
TermTypes == DefaultNames \cup DOMAIN hindi_translations \cup {"Auto Renewal", ""}

InitLookup == InitSeg

\* RiskAssessor(language): self.language = language or "English"
NewRiskAssessor(language) ==
    /\ phase = "input"
    /\ lookup' = [language |-> IF language = <<>> THEN <<"E","n","g","l","i","s","h">> ELSE language]
    /\ phase' = "constructed"
    /\ UNCHANGED <<text, pieces, clauses, clause_risks, category_scores, overall, probe,
                   results, similarity, template_matches, engine_vars>>

\* assessor._get_unfavorable_explanation(term_type)
GetUnfavorableExplanation(term_type) ==
    /\ phase = "constructed"
    /\ lookup' = [language  |-> lookup.language,
                  key       |-> "explanation",
                  table     |-> "explanations",
                  term_type |-> term_type,
                  outcome   |-> _get_unfavorable_explanation(lookup.language, term_type)]
    /\ phase' = "looked up"
    /\ UNCHANGED <<text, pieces, clauses, clause_risks, category_scores, overall, probe,
                   results, similarity, template_matches, engine_vars>>

\* assessor._get_alternative_suggestion(term_type)
GetAlternativeSuggestion(term_type) ==
    /\ phase = "constructed"
    /\ lookup' = [language  |-> lookup.language,
                  key       |-> "recommendation",
                  table     |-> "alternatives",
                  term_type |-> term_type,
                  outcome   |-> _get_alternative_suggestion(lookup.language, term_type)]
    /\ phase' = "looked up"
    /\ UNCHANGED <<text, pieces, clauses, clause_risks, category_scores, overall, probe,
                   results, similarity, template_matches, engine_vars>>

NextLookup ==
    \/ \E language \in LanguageTags : NewRiskAssessor(language)
    \/ \E term_type \in TermTypes : GetUnfavorableExplanation(term_type)
    \/ \E term_type \in TermTypes : GetAlternativeSuggestion(term_type)

SpecLookup == InitLookup /\ [][NextLookup]_vars

----------------------------------------------------------------------------
(* TemplateMatcher.__init__ and the template file as a state machine       *)

\* a library that differs from the defaults
custom_templates ==
    JsonObject(<<[template_key |-> <<"l","a","t","e","_","f","e","e">>, key_points |-> <<"Capped late fee">>]>>)

\* values that a JSON text in the file can have
LibraryValues == {_get_default_templates, custom_templates, JsonArray}

\* states of the file
FileStates == {FileAbsent, FileUnreadable, FileMalformed} \cup
              {json_dump(value) : value \in LibraryValues}

\* states of the directory: missing, usable, without write permission,
\* without search permission, or a regular file of that name
DirStates == {"absent", "writable", "read-only", "unsearchable", "regular file"}

\* self.templates_file.exists(): the stat call fails with an error that
\* pathlib does not swallow when the directory cannot be searched
exists(dir, file) ==
    IF dir = "unsearchable" THEN "PermissionError"
    ELSE IF dir \in {"absent", "regular file"} THEN "False"
    ELSE IF file.state = "absent" THEN "False" ELSE "True"

\* _save_templates: the directory after mkdir(parents=True, exist_ok=True),
\* or the exception
mkdir(dir) ==
    IF dir = "regular file" THEN "FileExistsError"
    ELSE IF dir = "absent" THEN "writable" ELSE dir

\* TemplateMatcher._load_templates with _save_templates: the matcher, the
\* directory and the file after the constructor
_load_templates(dir, file) ==
    LET unchanged(matcher) == [matcher |-> matcher, dir |-> dir, file |-> file]
    IN  CASE exists(dir, file) = "PermissionError" ->
                 unchanged(Failed("PermissionError"))
          [] exists(dir, file) = "True" ->
                 IF file.state = "json"
                 THEN unchanged(Constructed(json_load(file)))
                 ELSE unchanged(Constructed(_get_default_templates))
          [] exists(dir, file) = "False" ->
                 IF mkdir(dir) = "FileExistsError"
                 THEN unchanged(Failed("FileExistsError"))
                 ELSE IF mkdir(dir) = "read-only"
                 THEN unchanged(Failed("PermissionError"))
                 ELSE [matcher |-> Constructed(_get_default_templates),
                       dir     |-> mkdir(dir),
                       file    |-> json_dump(_get_default_templates)]

InitLoad == InitSeg

\* the directory is created, removed, replaced or its permissions change
SetTemplatesDir(dir) ==
    /\ templates_dir' = dir
    /\ templates_file' = IF dir \in {"absent", "regular file"} THEN FileAbsent
                         ELSE templates_file
    /\ UNCHANGED <<text, pieces, clauses, phase, clause_risks, category_scores, overall,
                   probe, contract_vars, hash_seed, self_templates>>

\* the file is written, removed or its permissions change
SetTemplatesFile(file) ==
    /\ templates_dir \notin {"absent", "regular file"}
    /\ templates_file' = file
    /\ UNCHANGED <<text, pieces, clauses, phase, clause_risks, category_scores, overall,
                   probe, contract_vars, hash_seed, self_templates, templates_dir>>

\* TemplateMatcher()
TemplateMatcherInit ==
    LET after == _load_templates(templates_dir, templates_file)
    IN  /\ self_templates' = after.matcher
        /\ templates_dir' = after.dir
        /\ templates_file' = after.file
        /\ UNCHANGED <<text, pieces, clauses, phase, clause_risks, category_scores,
                       overall, probe, contract_vars, hash_seed>>

NextLoad ==
    \/ \E dir \in DirStates : SetTemplatesDir(dir)
    \/ \E file \in FileStates : SetTemplatesFile(file)
    \/ TemplateMatcherInit

SpecLoad == InitLoad /\ [][NextLoad]_vars

----------------------------------------------------------------------------
(* Clauses of emotional-pressure keywords, as a state machine              *)

\* keywords of the emotional_pressure category, and one of penalty_clause
PressurePool ==
    <<<<"l","o","n","e","l","i","n","e","s","s">>, <<"w","o","r","t","h","l","e","s","s","n","e","s","s">>, <<"s","e","l","f","-","d","o","u","b","t">>, <<"n","o"," ","r","e","a","s","s","u","r","a","n","c","e">>,
      <<"r","e","p","e","a","t","e","d"," ","f","a","i","l","u","r","e">>, <<"a","v","o","i","d","i","n","g"," ","t","r","u","t","h">>, <<"c","o","n","s","e","n","t","s"," ","t","o">>, <<"p","e","n","a","l","t","y">>>>

InitPressure == InitSeg

\* the caller extends the content of the clause by one keyword of the pool,
\* later keywords after earlier ones
AppendKeyword(k) ==
    /\ phase = "input"
    /\ clauses # <<>>
    /\ IF pieces = <<>> THEN TRUE ELSE pieces[Len(pieces)] < k
    /\ LET old == clauses[1].content
           new == IF old = <<>> THEN PressurePool[k]
                  ELSE old \o <<",", " ">> \o PressurePool[k]
       IN  clauses' = <<InputClause(1, new)>>
    /\ pieces' = Append(pieces, k)
    /\ UNCHANGED <<text, phase, clause_risks, category_scores, overall, probe,
                   contract_vars, engine_vars>>

NextPressure ==
    \/ NewClause
    \/ \E k \in 1..Len(PressurePool) : AppendKeyword(k)
    \/ AssessClauseRisks

SpecPressure == InitPressure /\ [][NextPressure]_vars

----------------------------------------------------------------------------
(* Successive analysis runs with the same engine objects                   *)

\* documents analysed one after the other
MaxRuns == 2

\* the documents, as the names of their clauses' contents
RunDocuments == {<<>>, <<"pay">>, <<"grip">>, <<"grip", "pay">>}

\* parser.extract_clauses(text) of a document
document_clauses(d) == [i \in 1..Len(d) |-> InputClause(i, ContractPool[d[i]])]

InitRuns == InitMatcher

\* the next document is parsed; the results of the run before it stay with
\* the caller
NewDocument(d) ==
    /\ \/ phase = "input" /\ pieces = <<>>
       \/ phase = "matched"
    /\ Len(pieces) < MaxRuns
    /\ clauses' = document_clauses(d)
    /\ pieces' = Append(pieces, d)
    /\ phase' = "input"
    /\ UNCHANGED <<text, clause_risks, category_scores, overall, probe, contract_vars,
                   engine_vars>>

\* one analysis run: risk_assessor.assess_contract_risk(clauses, nlp_results)
\* followed by template_matcher.match_clauses_to_templates(clauses)
AnalyzeContract(lang, sim) ==
    /\ phase = "input"
    /\ pieces # <<>>
    /\ \E err \in {0 - 1, 0, 1} : results' = assess_contract_risk(clauses, lang, err)
    /\ similarity' = sim
    /\ template_matches' = match_clauses_to_templates(clauses, sim)
    /\ phase' = "matched"
    /\ UNCHANGED <<text, pieces, clauses, clause_risks, category_scores, overall, probe,
                   lookup, engine_vars>>

NextRuns ==
    \/ \E d \in RunDocuments : NewDocument(d)
    \/ \E lang \in Languages :
           \E sim \in [1..Len(clauses) -> PlainRatios] : AnalyzeContract(lang, sim)

SpecRuns == InitRuns /\ [][NextRuns]_vars

----------------------------------------------------------------------------
(* The caller's changes to returned results                                *)

\* 'key_points': best_match['template_data']['key_points'] of a returned
\* match: the list object of the library's template
key_points(match) == self_templates.templates.entries[match.template_data].key_points

\* the position in results['clause_risks'] of the dict object that is the
\* k-th entry of results['high_risk_clauses']
clause_risk_of(res, k) ==
    CHOOSE i \in 1..Len(res.clause_risks) :
        res.clause_risks[i].clause_id = res.high_risk_clauses[k].clause_id

\* match['key_points'].append('note') by the caller, on the m-th match
AppendKeyPoint(m) ==
    /\ phase = "matched"
    /\ m \in 1..Len(template_matches)
    /\ \A p \in 1..Len(key_points(template_matches[m])) :
           key_points(template_matches[m])[p] # "note"
    /\ self_templates' =
           Constructed(JsonObject([self_templates.templates.entries
               EXCEPT ![template_matches[m].template_data].key_points = Append(@, "note")]))
    /\ UNCHANGED <<text, pieces, clauses, phase, clause_risks, category_scores, overall,
                   probe, contract_vars, hash_seed, templates_dir, templates_file>>

\* results['high_risk_clauses'][k]['risk_level'] = 'reviewed' by the caller
RelabelHighRiskClause(k) ==
    /\ phase = "matched"
    /\ k \in 1..Len(results.high_risk_clauses)
    /\ results.high_risk_clauses[k].risk_level # "reviewed"
    /\ results' = [results EXCEPT !.high_risk_clauses[k].risk_level = "reviewed",
                                  !.clause_risks[clause_risk_of(results, k)].risk_level = "reviewed"]
    /\ UNCHANGED <<text, pieces, clauses, phase, clause_risks, category_scores, overall,
                   probe, lookup, similarity, template_matches, engine_vars>>

NextAlias ==
    \/ NextRuns
    \/ \E m \in 1..MaxContractClauses : AppendKeyPoint(m)
    \/ \E k \in 1..MaxContractClauses : RelabelHighRiskClause(k)

SpecAlias == InitRuns /\ [][NextAlias]_vars

----------------------------------------------------------------------------
(* Properties of the scorer                                                *)

\* how often the phrase p was appended
TimesUsed(p) == Cardinality({i \in 1..Len(pieces) : pieces[i] = p})

\* the position of category `name` in the clause's category_scores, 0 if absent
ScoreIndex(i, name) ==
    LET at == {j \in 1..Len(category_scores[i]) : category_scores[i][j].category = name}
    IN  IF at = {} THEN 0 ELSE CHOOSE j \in at : TRUE

\* the float x denotes n ten-thousandths
IsTenThousandths(x, n) == x[1] * 10000 = n * x[2]

\* the clause holds 'penalty' twice and 'fine' once and no other keyword of
\* penalty_clause
PenaltyTwiceFineOnce ==
    /\ phase = "assessed"
    /\ Len(clauses) = 1
    /\ TimesUsed("penalty") = 2
    /\ TimesUsed("fine") = 1

\* no other category of clause i scores higher than category `name`
NoneHigher(i, name) ==
    \A j \in 1..Len(category_scores[i]) :
        FloatLe(category_scores[i][j].score, category_scores[i][ScoreIndex(i, name)].score)

\* C5 as claimed: 'penalty' twice and 'fine' once give penalty_clause match
\* count 3 and category score 0.9 x 0.55 = 0.495, and level medium when no
\* other category scores higher.
C5_ThreeMatches ==
    PenaltyTwiceFineOnce =>
        /\ ScoreIndex(1, "penalty_clause") > 0
        /\ IsTenThousandths(category_scores[1][ScoreIndex(1, "penalty_clause")].score, 4950)
        /\ NoneHigher(1, "penalty_clause") => clause_risks[1].risk_level = "medium"

\* C5 as amended: each keyword present counts once however often it occurs,
\* so 'penalty' twice and 'fine' once give penalty_clause match count 2 and
\* category score 0.9 x 0.25 = 0.225, and level low when no other category
\* scores higher.
C5_TwoMatches ==
    PenaltyTwiceFineOnce =>
        /\ ScoreIndex(1, "penalty_clause") > 0
        /\ IsTenThousandths(category_scores[1][ScoreIndex(1, "penalty_clause")].score, 2250)
        /\ \E j \in 1..Len(clause_risks[1].detected_risks) :
              /\ clause_risks[1].detected_risks[j].category = "penalty_clause"
              /\ Len(clause_risks[1].detected_risks[j].matched_keywords) = 2
        /\ NoneHigher(1, "penalty_clause") => clause_risks[1].risk_level = "low"

C5_Witness ==
    /\ PenaltyTwiceFineOnce
    /\ clause_risks[1].risk_categories = <<"penalty_clause">>
    /\ clause_risks[1].risk_level = "low"

\* C6: for every category and every keyword of its configured list, a clause
\* whose content contains that keyword in any letter case counts it as a hit
\* for the category.
C6_CaseInsensitive ==
    phase = "assessed" =>
        \A i \in 1..Len(clauses) :
            \A c \in 1..Len(RISK_CATEGORIES) :
                \A k \in 1..Len(RISK_CATEGORIES[c].keywords) :
                    Contains(lower(RISK_CATEGORIES[c].keywords[k]), lower(clauses[i].content))
                    => \E j \in 1..Len(clause_risks[i].detected_risks) :
                          /\ clause_risks[i].detected_risks[j].category = RISK_CATEGORIES[c].name
                          /\ \E h \in 1..Len(clause_risks[i].detected_risks[j].matched_keywords) :
                                clause_risks[i].detected_risks[j].matched_keywords[h]
                                    = RISK_CATEGORIES[c].keywords[k]

\* w x min(1.0, base + 0.05 m) in ten-thousandths, for a weight in hundredths
StaircaseAsSpecified(w, m) ==
    LET base == IF m >= 5 THEN 70 ELSE IF m >= 3 THEN 40 ELSE 15
        step == IF base + 5 * m > 100 THEN 100 ELSE base + 5 * m
    IN  w * step

\* the number of keywords of category c that the lower-cased content holds
KeywordsPresent(c, content_lower) ==
    Cardinality({k \in 1..Len(RISK_CATEGORIES[c].keywords) :
                    Contains(RISK_CATEGORIES[c].keywords[k], content_lower)})

C8_MaxOfCategories ==
    phase = "assessed" =>
        \A i \in 1..Len(clause_risks) :
            LET r == clause_risks[i]
            IN  /\ r.risk_score >= 0 /\ r.risk_score <= 100
                /\ r.content = <<>> => r.detected_risks = <<>>
                /\ r.detected_risks = <<>> => r.risk_score = 0 /\ r.risk_level = "low"
                /\ r.detected_risks # <<>> =>
                      /\ \A j \in 1..Len(r.detected_risks) :
                            r.detected_risks[j].score <= r.risk_score
                      /\ \E j \in 1..Len(r.detected_risks) :
                            r.detected_risks[j].score = r.risk_score

\* a clause with two categories of different score
C8_Witness ==
    /\ phase = "assessed"
    /\ \E i \in 1..Len(clause_risks) :
          \E j, k \in 1..Len(clause_risks[i].detected_risks) :
              /\ clause_risks[i].detected_risks[j].score
                     < clause_risks[i].detected_risks[k].score
              /\ clause_risks[i].risk_score = clause_risks[i].detected_risks[k].score

\* the level the half-open intervals [0,0.3), [0.3,0.6), [0.6,1.1) give a
\* score of k hundredths, low outside them
LevelOfHundredths(k) ==
    IF 0 <= k /\ k < 30 THEN "low"
    ELSE IF 30 <= k /\ k < 60 THEN "medium"
    ELSE IF 60 <= k /\ k < 110 THEN "high"
    ELSE "low"

\* C9: _get_risk_level maps [0,0.3) to low, [0.3,0.6) to medium, [0.6,1.0]
\* to high and a score in no range to low; a clause result whose risk_score
\* is exactly 0.3 has level medium and one whose risk_score is exactly 0.6
\* has level high.
C9_ThresholdLookup ==
    /\ phase = "probed" => probe.level = LevelOfHundredths(probe.score[1])
    /\ phase = "assessed" =>
          \A i \in 1..Len(clause_risks) :
              /\ clause_risks[i].risk_score = 30 => clause_risks[i].risk_level = "medium"
              /\ clause_risks[i].risk_score = 60 => clause_risks[i].risk_level = "high"
    /\ \A c \in 1..Len(RISK_CATEGORIES) :
          \A m \in 1..Len(RISK_CATEGORIES[c].keywords) :
              LET x == CategoryScore(m, RISK_CATEGORIES[c].weight)
              IN  /\ round2(x) = 30 => _get_risk_level(x) = "medium"
                  /\ round2(x) = 60 => _get_risk_level(x) = "high"

\* a clause scored exactly 0.3 (arbitration, 4 matches: 0.5 x 0.6)
C9_Witness ==
    /\ phase = "assessed"
    /\ \E i \in 1..Len(clause_risks) :
          /\ clause_risks[i].risk_score = 30
          /\ clause_risks[i].risk_level = "medium"
          /\ IsTenThousandths(ClauseRiskScore(category_scores[i]), 3000)

----------------------------------------------------------------------------
(* Properties of the aggregator                                            *)

\* the exact rational <<a, b>> that min(1.0, raw_mean x 1.2) is when more
\* than 30% of the clauses are high, and that raw_mean is otherwise
OverallAsSpecified ==
    LET total == Len(clause_risks)
        sum   == SumRiskScores(clause_risks)
        high  == CountLevel(clause_risks, "high")
    IN  IF 10 * high > 3 * total
        THEN IF 12 * sum > 1000 * total THEN <<1, 1>> ELSE <<12 * sum, 1000 * total>>
        ELSE <<sum, 100 * total>>

\* C10 as claimed: the returned overall_score equals min(1.0, raw_mean x
\* 1.2) when high / total > 0.3 and raw_mean otherwise, and lies in [0,1].
C10_BoostExact ==
    (phase = "aggregated" /\ clause_risks # <<>>) =>
        /\ overall.score * OverallAsSpecified[2] = 100 * OverallAsSpecified[1]
        /\ overall.score >= 0 /\ overall.score <= 100

\* C10 as amended: the returned overall_score is min(1.0, raw_mean x 1.2)
\* when high / total > 0.3 and raw_mean otherwise, rounded to two decimals,
\* that is, a whole number of hundredths within half a hundredth of that
\* value; it lies in [0,1].
C10_BoostRounded ==
    (phase = "aggregated" /\ clause_risks # <<>>) =>
        LET d == overall.score * OverallAsSpecified[2] - 100 * OverallAsSpecified[1]
        IN  /\ 2 * d <= OverallAsSpecified[2]
            /\ 2 * (0 - d) <= OverallAsSpecified[2]
            /\ overall.score >= 0 /\ overall.score <= 100

\* 4 high clauses of 10: boosted, and the boosted value is no whole number
\* of hundredths
C10_Witness ==
    /\ phase = "aggregated"
    /\ Len(clause_risks) = 10
    /\ CountLevel(clause_risks, "high") = 4
    /\ 12 * SumRiskScores(clause_risks) < 1000 * 10
    /\ overall.score * 1000 * 10 # 100 * 12 * SumRiskScores(clause_risks)

\* C11: in every result of calculate_overall_risk the overall level is the
\* threshold lookup ([0,0.3) low, [0.3,0.6) medium, [0.6,1.1) high) of the
\* overall score returned in that same result.
\* It is stated for the results whose exact value is no multiple of half a
\* hundredth: there the error of the double arithmetic sways neither the
\* level nor the rounding.
C11_LevelOfReturnedScore ==
    (/\ phase = "aggregated"
     /\ clause_risks # <<>>
     /\ (200 * OverallAsSpecified[1]) % OverallAsSpecified[2] # 0)
    => overall.level = LevelOfHundredths(overall.score)

----------------------------------------------------------------------------
(* Properties of the contract assessment                                   *)

\* the i-th smallest element of a set of numbers
Nth(S, i) == CHOOSE x \in S : Cardinality({y \in S : y <= x}) = i

\* the positions of the clause results at a level
AtLevel(cr, level) == {i \in 1..Len(cr) : cr[i].risk_level = level}

\* C12: the distribution holds for each of low, medium, high the number of
\* clause results at that level; the three counts sum to the number of
\* clause results; distribution.high is the length of high_risk_clauses,
\* which is the order-preserving subsequence of clause_risks with level high.
C12_Distribution ==
    phase = "assessed" =>
        LET cr   == results.clause_risks
            d    == results.risk_distribution
            high == results.high_risk_clauses
        IN  /\ Len(cr) = Len(clauses)
            /\ d.low = Cardinality(AtLevel(cr, "low"))
            /\ d.medium = Cardinality(AtLevel(cr, "medium"))
            /\ d.high = Cardinality(AtLevel(cr, "high"))
            /\ d.low + d.medium + d.high = Len(cr)
            /\ d.high = Len(high)
            /\ \A k \in 1..Len(high) : high[k] = cr[Nth(AtLevel(cr, "high"), k)]

\* two high clauses
C12_Witness ==
    /\ phase = "assessed"
    /\ Len(results.high_risk_clauses) = 2
    /\ results.risk_distribution.high = 2

\* the flags of a type that carry the clause's id
FlagsOf(type, clause) ==
    {f \in 1..Len(results.risk_flags) :
        /\ results.risk_flags[f].type = type
        /\ results.risk_flags[f].scoped
        /\ results.risk_flags[f].clause_id = clause.clause_id}

\* the number of keywords of the named category in the clause, any letter case
CategoryCount(name, clause) ==
    LET c == CHOOSE x \in 1..Len(RISK_CATEGORIES) : RISK_CATEGORIES[x].name = name
    IN  KeywordsPresent(c, lower(clause.content))

\* C14: per clause at most one manipulation flag: one
\* psychological_manipulation flag of severity high when the clause holds
\* >= 3 severe keywords, and then no emotional_manipulation flag; otherwise
\* one emotional_manipulation flag of severity medium when it holds >= 3
\* moderate keywords; otherwise neither.
C14_OneManipulationFlag ==
    phase = "assessed" =>
        \A i \in 1..Len(clauses) :
            LET severe   == CategoryCount("manipulative_language", clauses[i])
                moderate == CategoryCount("emotional_pressure", clauses[i])
                psych    == FlagsOf("psychological_manipulation", clauses[i])
                emot     == FlagsOf("emotional_manipulation", clauses[i])
            IN  /\ \A f \in psych : results.risk_flags[f].severity = "high"
                /\ \A f \in emot : results.risk_flags[f].severity = "medium"
                /\ Cardinality(psych) = (IF severe >= 3 THEN 1 ELSE 0)
                /\ Cardinality(emot) = (IF severe < 3 /\ moderate >= 3 THEN 1 ELSE 0)

\* a clause with 5 severe keywords, and one with 3 severe and 3 moderate
C14_Witness ==
    /\ phase = "assessed"
    /\ \E i \in 1..Len(clauses) :
          /\ CategoryCount("manipulative_language", clauses[i]) = 5
          /\ Cardinality(FlagsOf("psychological_manipulation", clauses[i])) = 1
    /\ \E i \in 1..Len(clauses) :
          /\ CategoryCount("manipulative_language", clauses[i]) = 3
          /\ CategoryCount("emotional_pressure", clauses[i]) = 3
          /\ FlagsOf("emotional_manipulation", clauses[i]) = {}

\* the flags of a type
FlagsOfType(type) ==
    {f \in 1..Len(results.risk_flags) : results.risk_flags[f].type = type}

\* the critical topics that, spaces stripped, occur in no clause
AbsentTopics ==
    {critical_clauses[k] : k \in
        {k \in 1..Len(critical_clauses) :
            \A i \in 1..Len(clauses) :
                ~Contains(remove_spaces(critical_clauses[k]),
                          remove_spaces(lower(clauses[i].content)))}}

\* C15: exactly one missing_critical_clause flag (severity high, no
\* clause_id) when at least one of the six critical topics is absent,
\* spaces stripped, from every clause, naming exactly the absent topics; no
\* such flag when every topic occurs in some clause.
C15_MissingCriticalClause ==
    phase = "assessed" =>
        LET missing == FlagsOfType("missing_critical_clause")
        IN  IF AbsentTopics = {} THEN missing = {}
            ELSE /\ Cardinality(missing) = 1
                 /\ \A f \in missing :
                       /\ results.risk_flags[f].severity = "high"
                       /\ ~results.risk_flags[f].scoped
                       /\ results.risk_flags[f].missing = AbsentTopics

\* some but not all topics are absent and the flag names them
C15_Witness ==
    /\ phase = "assessed"
    /\ clauses # <<>>
    /\ Cardinality(AbsentTopics) = 5
    /\ \E f \in FlagsOfType("missing_critical_clause") :
          results.risk_flags[f].missing = AbsentTopics

\* the clauses that hold a penalty keyword, in any letter case
WithPenalty ==
    {i \in 1..Len(clauses) :
        \E k \in 1..Len(penalty_keywords) :
            Contains(penalty_keywords[k], lower(clauses[i].content))}

\* C16: at most one penalty_clause flag per document: exactly one (severity
\* medium, not clause-scoped) whose description reports the number of
\* matching clauses when some clause holds a penalty keyword, none otherwise.
C16_OnePenaltyFlag ==
    phase = "assessed" =>
        LET penalty == FlagsOfType("penalty_clause")
        IN  IF WithPenalty = {} THEN penalty = {}
            ELSE /\ Cardinality(penalty) = 1
                 /\ \A f \in penalty :
                       /\ results.risk_flags[f].severity = "medium"
                       /\ ~results.risk_flags[f].scoped
                       /\ results.risk_flags[f].found = Cardinality(WithPenalty)

\* two matching clauses, one flag
C16_Witness ==
    /\ phase = "assessed"
    /\ Cardinality(WithPenalty) = 2
    /\ Cardinality(FlagsOfType("penalty_clause")) = 1

\* which flags are emitted, and for which clause
Emitted(flags) ==
    [f \in 1..Len(flags) |-> <<flags[f].type, flags[f].scoped, flags[f].clause_id>>]

\* C17: all matching of generate_risk_flags is case-insensitive: writing
\* the clauses' contents in lower case does not change which flags are
\* emitted.
C17_CaseInsensitiveFlags ==
    phase = "assessed" =>
        Emitted(results.risk_flags)
        = Emitted(generate_risk_flags(
              [i \in 1..Len(clauses) |->
                  [clauses[i] EXCEPT !.content = lower(clauses[i].content)]]))

\* the (clause, archetype) pairs whose pattern fires
FiringPairs ==
    {p \in (1..Len(clauses)) \X (1..Len(unfavorable_patterns)) :
        Fires(p[2], clauses[p[1]].content)}

\* the (clause, archetype) pair an entry of unfavorable_terms stands for
PairOf(entry) ==
    <<CHOOSE i \in 1..Len(clauses) : clauses[i].clause_id = entry.clause_id,
      CHOOSE a \in 1..Len(unfavorable_patterns) :
          unfavorable_patterns[a].term_type = entry.term_type>>

\* C18: detect_unfavorable_terms returns one entry for each (clause,
\* archetype) pair whose pattern fires and none for any other pair, ordered
\* by input clause order and, within a clause, by the archetype table order.
C18_OneEntryPerPair ==
    phase = "assessed" =>
        LET u == results.unfavorable_terms
        IN  /\ Len(u) = Cardinality(FiringPairs)
            /\ \A k \in 1..Len(u) : PairOf(u[k]) \in FiringPairs
            /\ \A k \in 1..(Len(u) - 1) :
                  \/ PairOf(u[k])[1] < PairOf(u[k + 1])[1]
                  \/ /\ PairOf(u[k])[1] = PairOf(u[k + 1])[1]
                     /\ PairOf(u[k])[2] < PairOf(u[k + 1])[2]

\* a clause with four archetypes after a clause with one
C18_Witness ==
    /\ phase = "assessed"
    /\ Len(clauses) = 2
    /\ Cardinality({p \in FiringPairs : p[1] = 1}) = 1
    /\ Cardinality({p \in FiringPairs : p[1] = 2}) = 4
    /\ Len(results.unfavorable_terms) = 5

\* C13 as stated: for an empty document every stage returns an empty or
\* zero-valued result, the flag generator included
C13_EmptyInputNoFlags ==
    /\ (phase = "segmented" /\ pieces = <<>>) => clauses = <<>>
    /\ (phase = "assessed" /\ clauses = <<>>) =>
          /\ results.clause_risks = <<>>
          /\ results.overall_risk_score = 0
          /\ results.overall_risk_level = "low"
          /\ results.risk_distribution = [low |-> 0, medium |-> 0, high |-> 0]
          /\ results.risk_flags = <<>>
          /\ results.unfavorable_terms = <<>>
    /\ (phase = "matched" /\ clauses = <<>>) => template_matches = <<>>

\* C13, amended: for an empty document the segmenter returns no clauses, the
\* scorer no results, the aggregator score 0.0, level low and a distribution
\* of zeros, the unfavorable-term scan and the template matcher no matches,
\* and the flag generator exactly one flag, the missing_critical_clause flag
\* of severity high that names all six critical topics
C13_EmptyInput ==
    /\ (phase = "segmented" /\ pieces = <<>>) => clauses = <<>>
    /\ (phase = "assessed" /\ clauses = <<>>) =>
          /\ results.clause_risks = <<>>
          /\ results.high_risk_clauses = <<>>
          /\ results.overall_risk_score = 0
          /\ results.overall_risk_level = "low"
          /\ results.risk_distribution = [low |-> 0, medium |-> 0, high |-> 0]
          /\ Len(results.risk_flags) = 1
          /\ results.risk_flags[1].type = "missing_critical_clause"
          /\ results.risk_flags[1].severity = "high"
          /\ results.risk_flags[1].missing =
                {critical_clauses[k] : k \in 1..Len(critical_clauses)}
          /\ Len(critical_clauses) = 6
          /\ results.unfavorable_terms = <<>>
    /\ (phase = "matched" /\ clauses = <<>>) => template_matches = <<>>

\* an empty document has been assessed and its one flag names six topics
C13_Witness ==
    /\ phase = "assessed"
    /\ clauses = <<>>
    /\ Len(results.risk_flags) = 1
    /\ Cardinality(results.risk_flags[1].missing) = 6

\* C24: the operations are deterministic: a run on the same input in any
\* process returns the same output, the topic order of the
\* missing_critical_clause description included
C24_Deterministic ==
    phase = "assessed" =>
        \A seed \in HashSeeds :
            \A f \in FlagsOfType("missing_critical_clause") :
                LET flag == results.risk_flags[f]
                    missing_clauses == {k \in 1..Len(critical_clauses) :
                                           critical_clauses[k] \in flag.missing}
                IN  flag.description = join(seed, missing_clauses)

\* the position in the input of the clause with the given id
ClausePosition(clause_id) ==
    CHOOSE i \in 1..Len(clauses) : clauses[i].clause_id = clause_id

\* the entries refer to clauses in non-decreasing input position
InClauseOrder(entries) ==
    \A k \in 1..(Len(entries) - 1) :
        ClausePosition(entries[k].clause_id) <= ClausePosition(entries[k + 1].clause_id)

\* C25: assess_clause_risks returns one result per input clause, the i-th
\* carrying the i-th clause's clause_id; the entries of
\* detect_unfavorable_terms and of match_clauses_to_templates follow the
\* input clause order
C25_InputOrder ==
    /\ phase = "assessed" =>
          /\ Len(results.clause_risks) = Len(clauses)
          /\ \A i \in 1..Len(clauses) :
                results.clause_risks[i].clause_id = clauses[i].clause_id
          /\ InClauseOrder(results.unfavorable_terms)
    /\ phase = "matched" => InClauseOrder(template_matches)

\* two clauses were assessed and both have unfavorable terms
C25_Witness ==
    /\ phase = "assessed"
    /\ Len(clauses) = 2
    /\ Len(results.clause_risks) = 2
    /\ \E k \in 1..(Len(results.unfavorable_terms) - 1) :
          /\ results.unfavorable_terms[k].clause_id = clauses[1].clause_id
          /\ results.unfavorable_terms[k + 1].clause_id = clauses[2].clause_id

\* C28: a clause whose only matched category is emotional_pressure has
\* risk_score <= 0.55 and level low or medium, however many keywords match
C28_PressureNeverHigh ==
    phase = "assessed" =>
        \A i \in 1..Len(clause_risks) :
            clause_risks[i].risk_categories = <<"emotional_pressure">> =>
                /\ clause_risks[i].risk_score <= 55
                /\ clause_risks[i].risk_level \in {"low", "medium"}

\* a clause with seven keywords of emotional_pressure and none of another
\* category was scored 0.55, medium
C28_Witness ==
    /\ phase = "assessed"
    /\ Len(clause_risks) = 1
    /\ clause_risks[1].risk_categories = <<"emotional_pressure">>
    /\ CategoryCount("emotional_pressure", clauses[1]) = 7
    /\ clause_risks[1].risk_score = 55
    /\ clause_risks[1].risk_level = "medium"

\* C29: within one assessment, a clause with a psychological_manipulation
\* flag has manipulative_language among its risk_categories and a level of
\* medium or high; a clause with an emotional_manipulation flag has
\* emotional_pressure among its risk_categories and a level of medium or high
C29_FlagsAgreeWithScores ==
    phase = "assessed" =>
        \A i \in 1..Len(clauses) :
            LET risk == results.clause_risks[i]
                categories == {risk.risk_categories[j] : j \in 1..Len(risk.risk_categories)}
            IN  /\ FlagsOf("psychological_manipulation", clauses[i]) # {} =>
                      /\ "manipulative_language" \in categories
                      /\ risk.risk_level \in {"medium", "high"}
                /\ FlagsOf("emotional_manipulation", clauses[i]) # {} =>
                      /\ "emotional_pressure" \in categories
                      /\ risk.risk_level \in {"medium", "high"}

\* a document with a clause flagged psychological_manipulation and a clause
\* flagged emotional_manipulation whose level is medium
C29_Witness ==
    /\ phase = "assessed"
    /\ \E i \in 1..Len(clauses) :
          /\ FlagsOf("psychological_manipulation", clauses[i]) # {}
          /\ results.clause_risks[i].risk_level \in {"medium", "high"}
    /\ \E i \in 1..Len(clauses) :
          /\ FlagsOf("emotional_manipulation", clauses[i]) # {}
          /\ results.clause_risks[i].risk_level = "medium"

\* the results of a run on the clause list cs, for some language of the
\* assessor
RunResults(cs) ==
    {assess_contract_risk(cs, lang, err) : lang \in Languages, err \in {0 - 1, 0, 1}}

\* C27: an analysis run leaves the clause list, its records and the loaded
\* template library as they were, and the results for a document are those
\* of that document alone, whatever documents were analysed before it
C27_RunsAreIsolated ==
    /\ [](phase = "matched" =>
             /\ results \in RunResults(document_clauses(pieces[Len(pieces)]))
             /\ template_matches =
                    Flatten([i \in 1..Len(clauses) |-> TemplateMatch(clauses[i], similarity[i])])
             /\ clauses = document_clauses(pieces[Len(pieces)])
             /\ self_templates = Constructed(_get_default_templates))
    /\ [][phase' = "matched" =>
             /\ clauses' = clauses
             /\ self_templates' = self_templates
             /\ templates_file' = templates_file]_vars

\* a second document, analysed after a different one that had a high-risk
\* clause and a template match
C27_Witness ==
    /\ phase = "matched"
    /\ Len(pieces) = 2
    /\ pieces[1] = <<"grip", "pay">>
    /\ pieces[2] = <<"pay">>
    /\ Len(template_matches) = 1
    /\ results.high_risk_clauses = <<>>

\* C26: a change the caller makes to a returned result changes neither the
\* template library nor another returned result entity
C26_ResultsHoldNoReference ==
    [][phase = "matched" /\ phase' = "matched" =>
          /\ self_templates' = self_templates
          /\ results'.high_risk_clauses # results.high_risk_clauses
                 => results'.clause_risks = results.clause_risks]_vars

----------------------------------------------------------------------------
(* Properties of the template matcher                                      *)

\* the score of the t-th template for the i-th clause by the rule of the
\* matcher, in hundredths: the ratio, plus 20 where the type matches
RuleScore(i, t) ==
    similarity[i][t] +
    (IF type_match(templates[t], clause_type_of(clauses[i])) THEN 20 ELSE 0)

\* the highest score of the i-th clause
BestRuleScore(i) ==
    CHOOSE s \in {RuleScore(i, t) : t \in 1..Len(templates)} :
        \A t \in 1..Len(templates) : RuleScore(i, t) <= s

\* the entries reported for the i-th clause
MatchesOf(i) ==
    {m \in 1..Len(template_matches) :
        template_matches[m].clause_id = clauses[i].clause_id}

\* C20: a clause has at most one entry, for a template with the highest
\* score, and only when that score strictly exceeds 0.3
C20_BestAboveThreshold ==
    phase = "matched" =>
        \A i \in 1..Len(clauses) :
            /\ Cardinality(MatchesOf(i)) <= 1
            /\ \A m \in MatchesOf(i) :
                  /\ RuleScore(i, template_matches[m].template_data) = BestRuleScore(i)
                  /\ BestRuleScore(i) > 30

\* C21: every TemplateMatch has similarity_score in [0, 1], boosted matches
\* of a ratio above 0.8 included
C21_ScoreInUnitInterval ==
    phase = "matched" =>
        \A m \in 1..Len(template_matches) :
            /\ 0 <= template_matches[m].similarity_score
            /\ template_matches[m].similarity_score <= 100

\* the first template of the library that has the highest score of the
\* i-th clause
FirstBest(i) ==
    CHOOSE t \in 1..Len(templates) :
        /\ RuleScore(i, t) = BestRuleScore(i)
        /\ \A u \in 1..(t - 1) : RuleScore(i, u) < BestRuleScore(i)

\* C30: when several templates reach the same highest score, the entry
\* reports the one that comes first in the library
C30_FirstOfEqualBest ==
    phase = "matched" =>
        \A i \in 1..Len(clauses) :
            \A m \in MatchesOf(i) :
                BestRuleScore(i) > 30 => template_matches[m].template_data = FirstBest(i)

\* C22: the score of an entry is the ratio of its template, plus 0.2 if and
\* only if the clause's classified type and the template key contain one
\* another (no letter case), for the clauses the pipeline hands to the matcher
C22_BoostForClassifiedType ==
    phase = "matched" =>
        \A i \in 1..Len(clauses) :
            \A m \in MatchesOf(i) :
                LET t == template_matches[m].template_data
                    classified == analyze_clauses(clauses)[i].type
                IN  template_matches[m].similarity_score =
                        similarity[i][t] +
                        (IF type_match(templates[t], lower(classified)) THEN 20 ELSE 0)

----------------------------------------------------------------------------
(* Properties of the localization lookups                                  *)

\* the assessor's language has a string under the key looked up for the name
HasTranslation ==
    /\ Contains(<<"H","i","n","d","i">>, lookup.language)
    /\ lookup.term_type \in DOMAIN hindi_translations
    /\ lookup.key \in hindi_translations[lookup.term_type]

\* the string of the default language for the name looked up
DefaultString ==
    IF lookup.term_type \in DefaultNames
    THEN <<lookup.table, lookup.term_type>>
    ELSE <<lookup.table, "default">>

\* C19: a lookup returns a string and never raises, whatever the language
\* tag and the name; when the language has no string for the name, the
\* string of the default language is returned
C19_LookupNeverRaises ==
    phase = "looked up" =>
        /\ ~lookup.outcome.raised
        /\ ~HasTranslation => lookup.outcome.text = DefaultString

----------------------------------------------------------------------------
(* Properties of the construction of the matcher                           *)

\* C23: the constructor never fails; with an unreadable or malformed file
\* the library is the default set and the file is untouched, with no file
\* the library is the default set and the file is created holding it, with
\* a file of valid JSON that content is the library
C23_ConstructionNeverFails ==
    [][TemplateMatcherInit =>
          /\ self_templates'.status = "constructed"
          /\ templates_file.state \in {"unreadable", "malformed"} =>
                /\ self_templates'.templates = _get_default_templates
                /\ templates_file' = templates_file
          /\ templates_file.state = "absent" =>
                /\ self_templates'.templates = _get_default_templates
                /\ templates_file' = json_dump(_get_default_templates)
                /\ _load_templates(templates_dir', templates_file').matcher
                       = Constructed(_get_default_templates)
          /\ templates_file.state = "json" =>
                /\ self_templates'.templates = json_load(templates_file)
                /\ templates_file' = templates_file]_vars

----------------------------------------------------------------------------
(* Properties of the segmenter                                             *)

\* the number a decimal digit string denotes, -1 when it is no digit string
RECURSIVE ParseNat(_)
ParseNat(d) ==
    IF d = <<>> THEN -1
    ELSE LET last == d[Len(d)]
             v    == IF IsDigit(last)
                     THEN CHOOSE k \in 0..9 : DigitChars[k + 1] = last
                     ELSE -1
         IN  IF v < 0 THEN -1
             ELSE IF Len(d) = 1 THEN v
             ELSE LET rest == ParseNat(SubSeq(d, 1, Len(d) - 1))
                  IN  IF rest < 0 THEN -1 ELSE 10 * rest + v

\* `id` is 'C' followed by n zero-padded to 3 digits
IsClauseId(id, n) ==
    /\ Len(id) = 4
    /\ id[1] = "C"
    /\ ParseNat(Tail(id)) = n

IsParaLabel(label) == HasAt(label, 1, <<"P","a","r","a"," ">>)

\* the text holds at least one structural marker
HasMarker(t) == \E p \in 1..Len(t) : MatchAt(t, p) > 0

\* the trimmed marker-delimited spans of the text, in document order
Spans(t) ==
    LET parts == re_split(t)
    IN  [k \in 1..((Len(parts) - 1) \div 2) |-> strip(parts[2 * k + 1])]

SomeLongSpan(t) ==
    LET spans == Spans(t)
    IN  \E k \in 1..Len(spans) : Len(spans[k]) >= MIN_CLAUSE_LENGTH

\* C1: the i-th returned clause has clause_id 'C' followed by i zero-padded
\* to 3 digits, in the marker path and in the paragraph path, also when
\* spans or paragraphs were dropped for being too short.
C1_IdsContiguous ==
    phase = "segmented" =>
        \A i \in 1..Len(clauses) : IsClauseId(clauses[i].clause_id, i)

\* C2 as claimed: whenever the text contains at least one marker, no clause
\* labelled 'Para n' is emitted.
C2_NoParaWhenMarked ==
    (phase = "segmented" /\ HasMarker(text)) =>
        \A i \in 1..Len(clauses) : ~IsParaLabel(clauses[i].clause_number)

\* C2 as amended: the paragraph fallback runs exactly when no
\* marker-delimited span reaches MIN_CLAUSE_LENGTH: with such a span no
\* clause is labelled 'Para n', without one every clause is.
C2_FallbackIffNoLongSpan ==
    phase = "segmented" =>
        LET long_span == SomeLongSpan(text)
        IN  \A i \in 1..Len(clauses) :
                IsParaLabel(clauses[i].clause_number) <=> ~long_span

C2_Witness ==
    /\ phase = "segmented"
    /\ HasMarker(text)
    /\ SomeLongSpan(text)
    /\ clauses # <<>>
    /\ \A i \in 1..Len(clauses) : ~IsParaLabel(clauses[i].clause_number)

\* C3: every returned clause has trimmed content of length >=
\* MIN_CLAUSE_LENGTH and a length field equal to it; a span or paragraph of
\* exactly MIN_CLAUSE_LENGTH characters is emitted, in both paths.
C3_LengthFilter ==
    phase = "segmented" =>
        /\ \A i \in 1..Len(clauses) :
              /\ clauses[i].content = strip(clauses[i].content)
              /\ Len(clauses[i].content) >= MIN_CLAUSE_LENGTH
              /\ clauses[i].length = Len(clauses[i].content)
        /\ LET spans == Spans(text)
           IN  \A k \in 1..Len(spans) :
                   Len(spans[k]) = MIN_CLAUSE_LENGTH =>
                       \E i \in 1..Len(clauses) :
                           /\ clauses[i].content = spans[k]
                           /\ ~IsParaLabel(clauses[i].clause_number)
        /\ ~SomeLongSpan(text) =>
              LET paras == paragraphs_of(text)
              IN  \A k \in 1..Len(paras) :
                      Len(paras[k]) = MIN_CLAUSE_LENGTH =>
                          \E i \in 1..Len(clauses) :
                              /\ clauses[i].content = paras[k]
                              /\ IsParaLabel(clauses[i].clause_number)

\* a short span was dropped and a span of exactly MIN_CLAUSE_LENGTH kept
C3_Witness ==
    /\ phase = "segmented"
    /\ LET spans == Spans(text)
       IN  \E k \in 1..Len(spans) : Len(spans[k]) = MIN_CLAUSE_LENGTH - 1
    /\ \E i \in 1..Len(clauses) : clauses[i].length = MIN_CLAUSE_LENGTH

\* the lengths of the paragraphs a marker-free piece sequence spells: the
\* maximal runs of body pieces between blank lines
RECURSIVE ParagraphLengths(_, _)
ParagraphLengths(ps, run) ==
    IF ps = <<>> THEN (IF run > 0 THEN <<run>> ELSE <<>>)
    ELSE IF Head(ps) = "blank"
         THEN (IF run > 0 THEN <<run>> ELSE <<>>) \o ParagraphLengths(Tail(ps), 0)
         ELSE IF Head(ps) = "para"
         THEN <<run + MIN_CLAUSE_LENGTH + 1>> \o ParagraphLengths(Tail(ps), 0)
         ELSE ParagraphLengths(Tail(ps), run + Len(PiecePool[Head(ps)]))

\* the document is n blank-line-separated paragraphs, each longer than
\* MIN_CLAUSE_LENGTH, and holds no marker
LongParagraphsOnly ==
    /\ \A i \in 1..Len(pieces) : pieces[i] \notin MarkerNames
    /\ LET lens == ParagraphLengths(pieces, 0)
       IN  \A k \in 1..Len(lens) : lens[k] > MIN_CLAUSE_LENGTH

\* C4: a marker-free document of n blank-line-separated paragraphs, each
\* longer than MIN_CLAUSE_LENGTH, yields exactly n clauses in document
\* order, labelled 'Para 1' .. 'Para n'.
C4_ParagraphFallback ==
    (phase = "segmented" /\ LongParagraphsOnly) =>
        LET lens == ParagraphLengths(pieces, 0)
        IN  /\ Len(clauses) = Len(lens)
            /\ \A i \in 1..Len(clauses) :
                  /\ clauses[i].clause_number = <<"P","a","r","a"," ">> \o str(i)
                  /\ clauses[i].content = Body(lens[i])

C4_Witness ==
    /\ phase = "segmented"
    /\ pieces = <<"para", "para", "long">>
    /\ Len(clauses) = 3
    /\ clauses[3].clause_number = <<"P","a","r","a"," ","3">>

====
